---- MODULE Spec2Model ----
(***************************************************************************)
(* Run orchestration engine of vtx-sync: the cron scheduler callback       *)
(* (src/scheduler.ts), the circuit breaker (utils/circuitBreaker.ts) and   *)
(* the retry orchestrator (services/retry.ts), and below them one sync run *)
(* (services/sync.ts) with its export state machine (services/exporter.ts, *)
(* services/pacificTrack.ts, services/browser.ts, utils/download.ts) and   *)
(* the upload client (services/api.ts); beside them the trigger calendar   *)
(* with getNextRunTime (SpecCal) and the download capture, waitForDownload *)
(* over waitForFile (SpecCapture).                                         *)
(*                                                                         *)
(* Time is a discrete clock `now`.  One clock unit is 1/UnitsPerHour of an *)
(* hour; every duration of the program (jitter, retry delay, reset window) *)
(* is expressed in that unit.                                              *)
(***************************************************************************)
EXTENDS Integers, FiniteSets, Sequences, TLC

(* ------------------------------ bounds --------------------------------- *)
MaxTime == 10
UnitsPerHour == 4
MaxHandlers == 2
MaxSkew == 1
RandomGrain == 4
MaxFailures == 7
SYNC_DELAY_MAX_MS == 2
RETRY_DELAY_MS == 1
MaxDays == 2
DOWNLOAD_TIMEOUT_MS == 12
MaxFileSize == 2
MaxIdLen == 2
MaxElements == 2

(* --------------------------- program constants -------------------------- *)
CIRCUIT_BREAKER_THRESHOLD == 5
CIRCUIT_BREAKER_RESET_HOURS == 1
\* download.ts lines 32 and 54, in units of 100 ms.
pollInterval == 5
settleDelay == 2
null == -1

\* A file that is not there, and its name.
Absent == [size |-> null, magic |-> "none"]
NoPath == <<>>

\* No wall-clock time.
Never == [day |-> null, hour |-> null, minute |-> null]

Handlers == 1..MaxHandlers

VARIABLES
  now,                  \* wall clock read by `new Date()`
  consecutiveFailures,  \* circuit breaker counter
  circuitOpenedAt,      \* circuit breaker open timestamp, or null
  isRunning,            \* scheduler in-flight guard
  lastRunTime,          \* scheduler: exported last run time, or null
  lastRunStatus,        \* scheduler: "success" | "failure" | "null"
  hcLastRunStatus,      \* healthcheck module copy set by updateLastRun
  pc,                   \* position of each invocation of the cron callback
  wakeAt,               \* setTimeout deadline of a suspended invocation
  firstResult,          \* orchestrator local: result of the primary run
  result,               \* callback local: result returned by the orchestrator
  runs,                 \* runSync calls made by the invocation's orchestrator
  sleeps,               \* sleep(RETRY_DELAY_MS) calls made by the orchestrator
  calls,                \* notification collaborators called by the invocation
  lastLog,              \* last message logged by the scheduler / orchestrator
  cbLog,                \* last message logged by the circuit breaker
  op,                   \* last circuit breaker function called
  ret,                  \* value returned by the last isCircuitOpen()
  streak,               \* recordFailure() calls since the counter was last 0
  orch,                 \* position of a runSyncWithRetry call followed in detail
  step,                 \* awaited call the current runSync is suspended on
  thrown,               \* exception pending while the export's finally runs
  browser,              \* per run id: browser session of the export
  dir,                  \* per run id: run-scoped download directory
  cleaned,              \* run ids whose cleanupDownloadDirectory() was called
  started,              \* per run id: the steps called so far, in order
  runResult,            \* per run id: SyncResult returned by runSync
  returned,             \* result returned by runSyncWithRetry
  retryAt,              \* deadline of the orchestrator's sleep()
  cause,                \* per run id: error of the first failed operation
                        \* other than a screenshot
  shotFailed,           \* per run id: a page.screenshot() call failed
  pacificTime,          \* wall clock of America/Los_Angeles, to the minute
  lastTrigger,          \* wall-clock time at which the cron task last fired
  triggersToday,        \* times the cron task fired on the current day
  nextRunTime,          \* value returned by getNextRunTime() this minute
  dirExists,            \* the download directory exists
  files,                \* per file name: content of the file in the directory
  wpc,                  \* position of waitForDownload / waitForFile
  startTime,            \* waitForFile: Date.now() at its start
  pollAt,               \* waitForFile: time of the last passed loop test
  filePath,             \* waitForFile: the candidate of the current poll
  firstSize,            \* waitForFile: stats.size of the current poll
  newSize,              \* waitForFile: newStats.size of the current poll
  wake,                 \* waitForFile: deadline of the pending setTimeout
  waited,               \* how waitForFile ended
  buffer,               \* what readFileToBuffer returned
  artifact,             \* ExportResult returned by waitForDownload
  dlError,              \* error thrown by waitForDownload
  onlyPartial,          \* no complete file with the expected extension was
                        \* in the directory since the capture began
  primaryId,            \* runId passed to the last call of runSyncWithRetry
  retryId,              \* retryRunId of that call
  paths,                \* download directories of its two runs
  derived,              \* per primary id: the retry ids derived from it so far
  dom,                  \* rendered DOM of the vehicles page, document order
  tpc,                  \* position of triggerExport
  clicked,              \* what the page.evaluate() of triggerExport clicked
  triggered,            \* triggerExport has returned true
  triggerError          \* error thrown by triggerExport

breaker == <<consecutiveFailures, circuitOpenedAt>>
api == <<cbLog, op, ret, streak>>
health == <<lastRunTime, lastRunStatus, hcLastRunStatus>>
locals == <<pc, wakeAt, firstResult, result, runs, sleeps, calls>>
scheduler == <<breaker, api, isRunning, health, locals, lastLog>>
run == <<orch, step, thrown, browser, dir, cleaned, started, runResult,
         returned, retryAt, cause, shotFailed>>
calendar == <<pacificTime, lastTrigger, triggersToday, nextRunTime>>
capture == <<dirExists, files, wpc, startTime, pollAt, filePath, firstSize,
             newSize, wake, waited, buffer, artifact, dlError, onlyPartial>>
ids == <<primaryId, retryId, paths, derived>>
trigger == <<dom, tpc, clicked, triggered, triggerError>>
apart == <<calendar, capture, ids, trigger>>
vars == <<now, consecutiveFailures, circuitOpenedAt, isRunning, lastRunTime,
          lastRunStatus, hcLastRunStatus, pc, wakeAt, firstResult, result,
          runs, sleeps, calls, lastLog, cbLog, op, ret, streak, orch, step,
          thrown, browser, dir, cleaned, started, runResult, returned,
          retryAt, cause, shotFailed, pacificTime, lastTrigger,
          triggersToday, nextRunTime, dirExists, files, wpc, startTime,
          pollAt, filePath, firstSize, newSize, wake, waited, buffer,
          artifact, dlError, onlyPartial, primaryId, retryId, paths,
          derived, dom, tpc, clicked, triggered, triggerError>>

Max(a, b) == IF a >= b THEN a ELSE b

(* --------------------------- circuit breaker ---------------------------- *)
\* A breaker state is the pair of module variables, as a record.
CB(cf, at) == [consecutiveFailures |-> cf, circuitOpenedAt |-> at]

\* Line 314: the reset window, in clock units.
resetTimeoutMs == CIRCUIT_BREAKER_RESET_HOURS * UnitsPerHour

\* recordFailure() stamping the open time anew on every failure at or above
\* the threshold.
recordFailure_Restamps(b, t) ==
  LET c == b.consecutiveFailures + 1
      opens == c >= CIRCUIT_BREAKER_THRESHOLD
  IN  [cb |-> CB(c, IF opens THEN t ELSE b.circuitOpenedAt),
       log |-> IF opens THEN "open" ELSE "none"]

\* recordFailure() opening one failure late (`>` for `>=`).
recordFailure_Late(b, t) ==
  LET c == b.consecutiveFailures + 1
      opens == c > CIRCUIT_BREAKER_THRESHOLD /\ b.circuitOpenedAt = null
  IN  [cb |-> CB(c, IF opens THEN t ELSE b.circuitOpenedAt),
       log |-> IF opens THEN "open" ELSE "none"]

\* recordFailure(): increment, open when the threshold is reached and the
\* breaker is not already open.  t is the value of `new Date()`.  The result
\* is the state left and the message logged ("none" when nothing is logged).
recordFailure(b, t) ==
  LET c == b.consecutiveFailures + 1
      opens == c >= CIRCUIT_BREAKER_THRESHOLD /\ b.circuitOpenedAt = null
  IN  [cb |-> CB(c, IF opens THEN t ELSE b.circuitOpenedAt),
       log |-> IF opens THEN "open" ELSE "none"]

\* recordSuccess() that forgets to clear the open marker.
recordSuccess_KeepsMarker(b) ==
  LET wasOpen == b.circuitOpenedAt # null
  IN  [cb |-> CB(0, b.circuitOpenedAt),
       log |-> IF wasOpen THEN "closed" ELSE "none"]

\* recordSuccess(): reset counter and open marker.
recordSuccess(b) ==
  LET wasOpen == b.circuitOpenedAt # null
  IN  [cb |-> CB(0, null),
       log |-> IF wasOpen THEN "closed" ELSE "none"]

\* isCircuitOpen() whose auto-reset clears the open time and keeps the counter.
isCircuitOpen_KeepsCounter(b, t) ==
  IF b.consecutiveFailures < CIRCUIT_BREAKER_THRESHOLD
    THEN [ret |-> FALSE, cb |-> b, log |-> "none"]
  ELSE IF b.circuitOpenedAt = null
    THEN [ret |-> FALSE, cb |-> b, log |-> "none"]
  ELSE IF t - b.circuitOpenedAt >= resetTimeoutMs
    THEN [ret |-> FALSE, cb |-> CB(b.consecutiveFailures, null),
          log |-> "auto_reset"]
  ELSE [ret |-> TRUE, cb |-> b, log |-> "none"]

\* isCircuitOpen() taking the breaker for closed at the threshold itself
\* (`<=` for `<`).
isCircuitOpen_AboveThreshold(b, t) ==
  IF b.consecutiveFailures <= CIRCUIT_BREAKER_THRESHOLD
    THEN [ret |-> FALSE, cb |-> b, log |-> "none"]
  ELSE IF b.circuitOpenedAt = null
    THEN [ret |-> FALSE, cb |-> b, log |-> "none"]
  ELSE IF t - b.circuitOpenedAt >= resetTimeoutMs
    THEN [ret |-> FALSE, cb |-> CB(0, null), log |-> "auto_reset"]
  ELSE [ret |-> TRUE, cb |-> b, log |-> "none"]

\* isCircuitOpen() without the auto-reset.
isCircuitOpen_NoAutoReset(b, t) ==
  IF b.consecutiveFailures < CIRCUIT_BREAKER_THRESHOLD
    THEN [ret |-> FALSE, cb |-> b, log |-> "none"]
  ELSE IF b.circuitOpenedAt = null
    THEN [ret |-> FALSE, cb |-> b, log |-> "none"]
  ELSE [ret |-> TRUE, cb |-> b, log |-> "none"]

\* isCircuitOpen() resetting only strictly after the window (`>` for `>=`).
isCircuitOpen_Strict(b, t) ==
  IF b.consecutiveFailures < CIRCUIT_BREAKER_THRESHOLD
    THEN [ret |-> FALSE, cb |-> b, log |-> "none"]
  ELSE IF b.circuitOpenedAt = null
    THEN [ret |-> FALSE, cb |-> b, log |-> "none"]
  ELSE IF t - b.circuitOpenedAt > resetTimeoutMs
    THEN [ret |-> FALSE, cb |-> CB(0, null), log |-> "auto_reset"]
  ELSE [ret |-> TRUE, cb |-> b, log |-> "none"]

\* isCircuitOpen() resetting one clock unit before the window has elapsed.
isCircuitOpen_Early(b, t) ==
  IF b.consecutiveFailures < CIRCUIT_BREAKER_THRESHOLD
    THEN [ret |-> FALSE, cb |-> b, log |-> "none"]
  ELSE IF b.circuitOpenedAt = null
    THEN [ret |-> FALSE, cb |-> b, log |-> "none"]
  ELSE IF t - b.circuitOpenedAt >= resetTimeoutMs - 1
    THEN [ret |-> FALSE, cb |-> CB(0, null), log |-> "auto_reset"]
  ELSE [ret |-> TRUE, cb |-> b, log |-> "none"]

\* isCircuitOpen() that never reports the breaker open.
isCircuitOpen_NeverOpen(b, t) == [ret |-> FALSE, cb |-> b, log |-> "none"]

\* isCircuitOpen(): returned value, state left and message logged.
isCircuitOpen(b, t) ==
  IF b.consecutiveFailures < CIRCUIT_BREAKER_THRESHOLD
    THEN [ret |-> FALSE, cb |-> b, log |-> "none"]
  ELSE IF b.circuitOpenedAt = null
    THEN [ret |-> FALSE, cb |-> b, log |-> "none"]
  ELSE IF t - b.circuitOpenedAt >= resetTimeoutMs
    THEN [ret |-> FALSE, cb |-> CB(0, null), log |-> "auto_reset"]
  ELSE [ret |-> TRUE, cb |-> b, log |-> "none"]

\* getStatus(): calls isCircuitOpen() and reads the state it leaves.
getStatus(b, t) ==
  LET r == isCircuitOpen(b, t)
  IN  [isOpen |-> r.ret,
       consecutiveFailures |-> r.cb.consecutiveFailures,
       openedAt |-> r.cb.circuitOpenedAt,
       willResetAt |-> IF r.cb.circuitOpenedAt # null
                       THEN r.cb.circuitOpenedAt + resetTimeoutMs ELSE null,
       cb |-> r.cb,
       log |-> r.log]

\* The effect on the module state of a breaker function `o` that left state
\* b, returned rv (isCircuitOpen / getStatus only) and logged lg.
BreakerCalled(o, b, rv, lg) ==
  /\ consecutiveFailures' = b.consecutiveFailures
  /\ circuitOpenedAt' = b.circuitOpenedAt
  /\ op' = o
  /\ ret' = rv
  /\ cbLog' = IF lg = "none" THEN cbLog ELSE lg
  /\ streak' = IF b.consecutiveFailures = 0 THEN 0
               ELSE IF o = "recordFailure" THEN streak + 1 ELSE streak

(* ------------------------------ scheduler ------------------------------- *)
\* getRandomDelay() rounding up instead of down.
getRandomDelay_Ceil(k) ==
  (k * SYNC_DELAY_MAX_MS + RandomGrain - 1) \div RandomGrain

\* getRandomDelay(): Math.floor(Math.random() * SYNC_DELAY_MAX_MS), with
\* Math.random() = k / RandomGrain in [0, 1).
getRandomDelay(k) == (k * SYNC_DELAY_MAX_MS) \div RandomGrain

NoResult == [success |-> FALSE, wasRetry |-> FALSE, isRetryExhausted |-> FALSE,
             endTime |-> null]

\* retry.ts line 54: the run ids of the primary and of the secondary run.
RunIds == {"run", "run-retry"}

\* The value of a property that an object does not carry.
undefined == "undefined"

\* JavaScript truthiness of an optional boolean property f of r.
Flag(r, f) == f \in DOMAIN r /\ r[f] = TRUE

\* Error values.  A message is the sequence of its parts: a wrapped error
\* `${prefix}${message}` is the prefix followed by the parts of the cause.
NoError == [message |-> <<>>, category |-> undefined]

\* `new Error(m)`: carries no category property.
PlainError(m) == [message |-> <<m>>, category |-> undefined]

\* `new PacificTrackError(message, category)`, and the errors of api.ts on
\* which the category property is set after construction.
CategorisedError(m, c) == [message |-> m, category |-> c]

\* sync.ts lines 53-69: the SyncResult of a successful run ending at t.
SyncSuccess(t) == [success |-> TRUE, endTime |-> t, phase |-> "complete"]

\* sync.ts lines 92-116: the SyncResult built by the catch block of runSync
\* from the caught error e, at time t.
SyncFailure(e, t) ==
  LET errorCategory == e.category
      phase == IF errorCategory \in {"login", "navigation", "export"}
                 THEN "export"
               ELSE IF errorCategory \in {"auth", "upload"}
                 THEN "upload"
               ELSE "complete"
  IN  [success |-> FALSE, endTime |-> t, phase |-> phase,
       error |-> e.message, errorCategory |-> errorCategory]

\* The error of a failed run where the scheduler does not depend on it.
SomeError == CategorisedError(<<"VTX Uploads API error: ", "Unknown error">>,
                              "upload")

\* SyncResult built by runSync at time t.
RunResult(ok, t) == IF ok THEN SyncSuccess(t) ELSE SyncFailure(SomeError, t)

\* How an awaited runSyncWithRetry can settle for the callback: with a
\* successful run, with a failed run, or with an exception raised inside the
\* callback's try block (the case its catch block handles).
RunOutcomes == {"success", "failure", "throw"}

\* File names are the sequences of their parts: a leading "." part marks a
\* hidden file, the other parts after the first are the extensions.
FileNames ==
  {<<"report", ".xlsx">>,
   <<"report", ".xlsx", ".crdownload">>,
   <<".", "report", ".xlsx">>}

\* String.prototype.endsWith and startsWith on such names.
endsWith(f, x) == Len(f) > 0 /\ f[Len(f)] = x
startsWith(f, x) == Len(f) > 0 /\ f[1] = x

\* The filter of download.ts lines 40-45 accepting the expected extension
\* anywhere in the name.
IsXlsxFile_Anywhere(f) ==
  /\ \E i \in 1..Len(f) : f[i] = ".xlsx"
  /\ ~startsWith(f, ".")

\* download.ts lines 40-45: the filter of the directory listing.
IsXlsxFile(f) ==
  /\ endsWith(f, ".xlsx")
  /\ ~endsWith(f, ".crdownload")
  /\ ~endsWith(f, ".tmp")
  /\ ~startsWith(f, ".")

\* The stability test of line 57 always passing.
SizeStable_Always(a, b) == TRUE

\* download.ts line 57: newStats.size === stats.size.
SizeStable(a, b) == a = b

\* The signature test always passing.
ValidSignature_Always(b) == TRUE

\* pacificTrack.ts line 474: the buffer starts with the bytes 0x50 0x4B.
ValidSignature(b) == b.magic = "PK"

\* The loop of waitForFile never giving up.
TimeLeft_Always(t0, t) == TRUE

\* download.ts line 35: Date.now() - startTime < timeout.
TimeLeft(t0, t) == t - t0 < DOWNLOAD_TIMEOUT_MS

\* What a file of the given name can hold: the browser writes the finished
\* download under its final name, anything else keeps one content.
Contents(f) ==
  IF f = <<"report", ".xlsx">>
    THEN {[size |-> 0, magic |-> "none"]}
           \cup [size : 1..MaxFileSize, magic : {"PK", "other"}]
    ELSE {[size |-> 1, magic |-> "PK"]}

NoArtifact == [filename |-> NoPath, size |-> null, magic |-> "none"]

\* Run ids are the sequences of their characters.  generateRunId() returns
\* up to eight characters of the base-36 digits of Math.random()
\* (logger.ts line 9), here up to MaxIdLen characters out of two.
IdChars == {"a", "7"}

SeqsUpTo(S, n) == UNION {[1..k -> S] : k \in 0..n}

GeneratedIds == SeqsUpTo(IdChars, MaxIdLen)

\* No run id.
NoId == <<"none">>

\* The retry id being the primary id itself.
retryRunId_Same(runId) == runId

\* retry.ts line 54: `${runId}-retry`.
retryRunId(runId) == runId \o <<"-retry">>

\* download.ts line 13: path.join(os.tmpdir(), `vtx-sync-${runId}`).
setupDownloadDirectory(runId) == <<"tmpdir", "/", "vtx-sync-">> \o runId

\* The result of the page.evaluate() of triggerExport when nothing matched
\* (pacificTrack.ts line 331).  element is the label the code returns, at the
\* position in document order and target the tag of the node whose click()
\* was called.
NothingClicked ==
  [clicked |-> FALSE, element |-> "null", at |-> 0, target |-> "none"]

Init ==
  /\ now = 0
  /\ consecutiveFailures = 0
  /\ circuitOpenedAt = null
  /\ isRunning = FALSE
  /\ lastRunTime = null
  /\ lastRunStatus = "null"
  /\ hcLastRunStatus = "null"
  /\ pc = [h \in Handlers |-> "idle"]
  /\ wakeAt = [h \in Handlers |-> null]
  /\ firstResult = [h \in Handlers |-> NoResult]
  /\ result = [h \in Handlers |-> NoResult]
  /\ runs = [h \in Handlers |-> 0]
  /\ sleeps = [h \in Handlers |-> 0]
  /\ calls = [h \in Handlers |-> {}]
  /\ lastLog = "none"
  /\ cbLog = "none"
  /\ op = "none"
  /\ ret = FALSE
  /\ streak = 0
  /\ orch = "idle"
  /\ step = "none"
  /\ thrown = NoError
  /\ browser = [r \in RunIds |-> "none"]
  /\ dir = [r \in RunIds |-> "none"]
  /\ cleaned = {}
  /\ started = [r \in RunIds |-> <<>>]
  /\ runResult = [r \in RunIds |-> NoResult]
  /\ returned = NoResult
  /\ retryAt = null
  /\ cause = [r \in RunIds |-> NoError]
  /\ shotFailed = [r \in RunIds |-> FALSE]
  /\ pacificTime = [day |-> 0, hour |-> 0, minute |-> 0]
  /\ lastTrigger = Never
  /\ triggersToday = 0
  /\ nextRunTime = Never
  /\ dirExists = FALSE
  /\ files = [f \in FileNames |-> Absent]
  /\ wpc = "idle"
  /\ startTime = null
  /\ pollAt = null
  /\ filePath = NoPath
  /\ firstSize = null
  /\ newSize = null
  /\ wake = null
  /\ waited = "pending"
  /\ buffer = Absent
  /\ artifact = NoArtifact
  /\ dlError = NoError
  /\ onlyPartial = TRUE
  /\ primaryId = NoId
  /\ retryId = NoId
  /\ paths = [primary |-> NoPath, secondary |-> NoPath]
  /\ derived = [id \in GeneratedIds |-> {}]
  /\ dom = <<>>
  /\ tpc = "unloaded"
  /\ clicked = NothingClicked
  /\ triggered = FALSE
  /\ triggerError = NoError

\* Free passage of time.
Advance ==
  /\ now < MaxTime
  /\ now' = now + 1
  /\ UNCHANGED <<breaker, api, isRunning, health, locals, lastLog, run, apart>>

\* The overlap guard left out.
PreviousRunInProgress_Off == FALSE

\* Line 110: the overlap guard of the cron callback.
PreviousRunInProgress == isRunning

\* The invocation returns: its locals go out of scope.
Return(h) ==
  /\ pc' = [pc EXCEPT ![h] = "idle"]
  /\ wakeAt' = [wakeAt EXCEPT ![h] = null]
  /\ firstResult' = [firstResult EXCEPT ![h] = NoResult]
  /\ result' = [result EXCEPT ![h] = NoResult]
  /\ runs' = [runs EXCEPT ![h] = 0]
  /\ sleeps' = [sleeps EXCEPT ![h] = 0]
  /\ calls' = [calls EXCEPT ![h] = {}]

\* Lines 216-219 and the finally block (line 228): publish the result to the
\* healthcheck tracking and clear the in-flight guard.
Finish(h, res) ==
  /\ lastRunTime' = IF res.endTime # null THEN res.endTime ELSE now
  /\ lastRunStatus' = IF res.success THEN "success" ELSE "failure"
  /\ hcLastRunStatus' = IF res.success THEN "success" ELSE "failure"
  /\ isRunning' = FALSE
  /\ Return(h)

\* The catch block without the finally block: the guard is not cleared.
Unexpected_NoFinally(h) ==
  /\ lastLog' = "unexpected_error"
  /\ Return(h)
  /\ UNCHANGED <<now, breaker, api, health, isRunning, run, apart>>

\* The catch block counting the exception as a failed run.
Unexpected_RecordsFailure(h) ==
  /\ lastLog' = "unexpected_error"
  /\ isRunning' = FALSE
  /\ Return(h)
  /\ LET f == recordFailure(CB(consecutiveFailures, circuitOpenedAt), now)
     IN  BreakerCalled("recordFailure", f.cb, ret, f.log)
  /\ UNCHANGED <<now, health, run, apart>>

\* Lines 220-229: catch of an unexpected exception, then the finally block.
Unexpected(h) ==
  /\ lastLog' = "unexpected_error"
  /\ isRunning' = FALSE
  /\ Return(h)
  /\ UNCHANGED <<now, breaker, api, health, run, apart>>

\* The outcome recorded on the breaker chosen by the primary run's result.
HandleResult_ByPrimary(h, first, res) ==
  /\ UNCHANGED <<now, run, apart>>
  /\ IF first.success
     THEN /\ LET s == recordSuccess(CB(consecutiveFailures, circuitOpenedAt))
             IN  BreakerCalled("recordSuccess", s.cb, ret, s.log)
          /\ lastLog' = "completed"
          /\ firstResult' = [firstResult EXCEPT ![h] = first]
          /\ result' = [result EXCEPT ![h] = res]
          /\ calls' = [calls EXCEPT ![h] = @ \cup {"sendSuccessEmail"}]
          /\ pc' = [pc EXCEPT ![h] = "sendSuccessEmail"]
          /\ UNCHANGED <<isRunning, health, wakeAt, runs, sleeps>>
     ELSE /\ LET f == recordFailure(CB(consecutiveFailures, circuitOpenedAt), now)
             IN  BreakerCalled("recordFailure", f.cb, ret, f.log)
          /\ lastLog' = "failed"
          /\ IF Flag(res, "isRetryExhausted")
             THEN /\ firstResult' = [firstResult EXCEPT ![h] = first]
                  /\ result' = [result EXCEPT ![h] = res]
                  /\ calls' = [calls EXCEPT ![h] = @ \cup {"sendFailureAlert"}]
                  /\ pc' = [pc EXCEPT ![h] = "sendFailureAlert"]
                  /\ UNCHANGED <<isRunning, health, wakeAt, runs, sleeps>>
             ELSE Finish(h, res)

\* Lines 149-214 up to the first awaited notification: record the outcome on
\* the breaker, then call the first notification collaborator.  first is the
\* orchestrator's firstResult, res the result it returned.
HandleResult(h, first, res) ==
  /\ UNCHANGED <<now, run, apart>>
  /\ IF res.success
     THEN /\ LET s == recordSuccess(CB(consecutiveFailures, circuitOpenedAt))
             IN  BreakerCalled("recordSuccess", s.cb, ret, s.log)
          /\ lastLog' = "completed"
          /\ firstResult' = [firstResult EXCEPT ![h] = first]
          /\ result' = [result EXCEPT ![h] = res]
          /\ calls' = [calls EXCEPT ![h] = @ \cup {"sendSuccessEmail"}]
          /\ pc' = [pc EXCEPT ![h] = "sendSuccessEmail"]
          /\ UNCHANGED <<isRunning, health, wakeAt, runs, sleeps>>
     ELSE /\ LET f == recordFailure(CB(consecutiveFailures, circuitOpenedAt), now)
             IN  BreakerCalled("recordFailure", f.cb, ret, f.log)
          /\ lastLog' = "failed"
          /\ IF Flag(res, "isRetryExhausted")
             THEN /\ firstResult' = [firstResult EXCEPT ![h] = first]
                  /\ result' = [result EXCEPT ![h] = res]
                  /\ calls' = [calls EXCEPT ![h] = @ \cup {"sendFailureAlert"}]
                  /\ pc' = [pc EXCEPT ![h] = "sendFailureAlert"]
                  /\ UNCHANGED <<isRunning, health, wakeAt, runs, sleeps>>
             ELSE Finish(h, res)

\* The cron callback up to its first suspension (lines 108-147).  Ticks are
\* observed up to the time horizon MaxTime.
Tick(h) ==
  /\ pc[h] = "idle"
  /\ now <= MaxTime
  /\ UNCHANGED <<run, apart>>
  /\ IF PreviousRunInProgress
     THEN /\ lastLog' = "skip_running"
          /\ UNCHANGED <<now, breaker, api, isRunning, health, locals>>
     ELSE LET r == isCircuitOpen(CB(consecutiveFailures, circuitOpenedAt), now)
          IN  IF r.ret
              THEN \* getStatus() reads the clock again; d is the time that
                   \* elapsed since the read made by isCircuitOpen().
                   \E d \in 0..MaxSkew :
                     LET s == getStatus(r.cb, now + d)
                     IN  /\ now + d <= MaxTime
                         /\ now' = now + d
                         /\ BreakerCalled("getStatus", s.cb, s.isOpen, s.log)
                         /\ lastLog' = "skip_circuit"
                         /\ UNCHANGED <<isRunning, health, locals>>
              ELSE \E k \in 0..(RandomGrain - 1) :
                     LET delayMs == getRandomDelay(k)
                     IN  /\ BreakerCalled("isCircuitOpen", r.cb, r.ret, r.log)
                         /\ isRunning' = TRUE
                         /\ lastLog' = "triggered"
                         /\ IF delayMs > 0
                            THEN /\ pc' = [pc EXCEPT ![h] = "jitter"]
                                 /\ wakeAt' = [wakeAt EXCEPT ![h] = now + delayMs]
                                 /\ runs' = [runs EXCEPT ![h] = 0]
                            ELSE /\ pc' = [pc EXCEPT ![h] = "primary"]
                                 /\ wakeAt' = [wakeAt EXCEPT ![h] = null]
                                 /\ runs' = [runs EXCEPT ![h] = 1]
                         /\ UNCHANGED <<now, health, firstResult, result,
                                        sleeps, calls>>

\* Line 143: the jitter timer fires, no earlier than its deadline; the
\* callback resumes and calls runSyncWithRetry, which starts the primary run.
JitterElapsed(h) ==
  /\ pc[h] = "jitter"
  /\ now' = Max(now, wakeAt[h])
  /\ pc' = [pc EXCEPT ![h] = "primary"]
  /\ wakeAt' = [wakeAt EXCEPT ![h] = null]
  /\ runs' = [runs EXCEPT ![h] = 1]
  /\ lastLog' = "starting"
  /\ UNCHANGED <<breaker, api, isRunning, health, firstResult, result, sleeps,
                 calls, run, apart>>

(* -------------------------- retry orchestrator -------------------------- *)
\* Lines 70-74 of retry.ts: the result returned when the retry succeeded,
\* `{...retryResult, wasRetry: true, originalError: firstResult.error}`.
RetrySucceeded(r, first) ==
  [wasRetry |-> TRUE, originalError |-> first.error] @@ r

\* The exhausted result returned without the isRetryExhausted mark.
RetryExhausted_Unmarked(r, first) ==
  [wasRetry |-> TRUE, originalError |-> first.error] @@ r

\* The exhausted result keeping the retry's own error as the original one.
RetryExhausted_OwnError(r, first) ==
  [wasRetry |-> TRUE, isRetryExhausted |-> TRUE,
   originalError |-> r.error] @@ r

\* Lines 87-92 of retry.ts: the result returned when the retry also failed.
RetryExhausted(r, first) ==
  [wasRetry |-> TRUE, isRetryExhausted |-> TRUE,
   originalError |-> first.error] @@ r

\* The orchestrator retrying whatever the first result.
NeedsRetry_Always(first) == TRUE

\* Line 35 of retry.ts: is a secondary run needed after the first result?
NeedsRetry(first) == ~first.success

\* The primary runSync settles (retry.ts lines 32-51).
PrimaryReturns(h, out) ==
  /\ pc[h] = "primary"
  /\ IF out = "throw"
     THEN Unexpected(h)
     ELSE LET first == RunResult(out = "success", now)
          IN  IF ~NeedsRetry(first)
              THEN HandleResult(h, first, first)
              ELSE /\ firstResult' = [firstResult EXCEPT ![h] = first]
                   /\ pc' = [pc EXCEPT ![h] = "retryDelay"]
                   /\ wakeAt' = [wakeAt EXCEPT ![h] = now + RETRY_DELAY_MS]
                   /\ sleeps' = [sleeps EXCEPT ![h] = @ + 1]
                   /\ lastLog' = "will_retry"
                   /\ UNCHANGED <<now, breaker, api, isRunning, health, result,
                                  runs, calls, run, apart>>

\* The retry timer fires and the secondary runSync starts (lines 51-61).
RetryDelayElapsed(h) ==
  /\ pc[h] = "retryDelay"
  /\ now' = Max(now, wakeAt[h])
  /\ pc' = [pc EXCEPT ![h] = "secondary"]
  /\ wakeAt' = [wakeAt EXCEPT ![h] = null]
  /\ runs' = [runs EXCEPT ![h] = @ + 1]
  /\ lastLog' = "retrying"
  /\ UNCHANGED <<breaker, api, isRunning, health, firstResult, result, sleeps,
                 calls, run, apart>>

\* The secondary runSync settles (retry.ts lines 61-92).
SecondaryReturns(h, out) ==
  /\ pc[h] = "secondary"
  /\ IF out = "throw"
     THEN Unexpected(h)
     ELSE LET retryResult == RunResult(out = "success", now)
          IN  IF retryResult.success
              THEN HandleResult(h, firstResult[h],
                                RetrySucceeded(retryResult, firstResult[h]))
              ELSE HandleResult(h, firstResult[h],
                                RetryExhausted(retryResult, firstResult[h]))

(* ------------------------ notification returns -------------------------- *)
\* A failed success email left uncaught: it reaches the outer catch block.
SendSuccessEmailReturns_Uncaught(h, ok) ==
  /\ pc[h] = "sendSuccessEmail"
  /\ IF ok
     THEN /\ lastLog' = lastLog
          /\ Finish(h, result[h])
          /\ UNCHANGED <<now, breaker, api, run, apart>>
     ELSE Unexpected(h)

\* Lines 165-173, then 216-229.
SendSuccessEmailReturns(h, ok) ==
  /\ pc[h] = "sendSuccessEmail"
  /\ lastLog' = IF ok THEN lastLog ELSE "success_email_failed"
  /\ Finish(h, result[h])
  /\ UNCHANGED <<now, breaker, api, run, apart>>

\* A failed alert ending the handling, the failure email never being sent.
SendFailureAlertReturns_StopsOnError(h, ok) ==
  /\ pc[h] = "sendFailureAlert"
  /\ lastLog' = IF ok THEN "alert_sent" ELSE "alert_failed"
  /\ IF ok
     THEN /\ calls' = [calls EXCEPT ![h] = @ \cup {"sendFailureEmail"}]
          /\ pc' = [pc EXCEPT ![h] = "sendFailureEmail"]
          /\ UNCHANGED <<isRunning, health, wakeAt, firstResult, result, runs,
                         sleeps>>
     ELSE Finish(h, result[h])
  /\ UNCHANGED <<now, breaker, api, run, apart>>

\* Lines 192-205.
SendFailureAlertReturns(h, ok) ==
  /\ pc[h] = "sendFailureAlert"
  /\ lastLog' = IF ok THEN "alert_sent" ELSE "alert_failed"
  /\ calls' = [calls EXCEPT ![h] = @ \cup {"sendFailureEmail"}]
  /\ pc' = [pc EXCEPT ![h] = "sendFailureEmail"]
  /\ UNCHANGED <<now, breaker, api, isRunning, health, wakeAt, firstResult,
                 result, runs, sleeps, run, apart>>

\* Lines 204-212, then 216-229.
SendFailureEmailReturns(h, ok) ==
  /\ pc[h] = "sendFailureEmail"
  /\ lastLog' = IF ok THEN lastLog ELSE "failure_email_failed"
  /\ Finish(h, result[h])
  /\ UNCHANGED <<now, breaker, api, run, apart>>

\* Any continuation of invocation h.
Resume(h) ==
  \/ JitterElapsed(h)
  \/ \E out \in RunOutcomes : PrimaryReturns(h, out)
  \/ RetryDelayElapsed(h)
  \/ \E out \in RunOutcomes : SecondaryReturns(h, out)
  \/ \E ok \in BOOLEAN : SendSuccessEmailReturns(h, ok)
  \/ \E ok \in BOOLEAN : SendFailureAlertReturns(h, ok)
  \/ \E ok \in BOOLEAN : SendFailureEmailReturns(h, ok)

Next ==
  \/ Advance
  \/ \E h \in Handlers : Tick(h)
  \/ \E h \in Handlers : JitterElapsed(h)
  \/ \E h \in Handlers, out \in RunOutcomes : PrimaryReturns(h, out)
  \/ \E h \in Handlers : RetryDelayElapsed(h)
  \/ \E h \in Handlers, out \in RunOutcomes : SecondaryReturns(h, out)
  \/ \E h \in Handlers, ok \in BOOLEAN : SendSuccessEmailReturns(h, ok)
  \/ \E h \in Handlers, ok \in BOOLEAN : SendFailureAlertReturns(h, ok)
  \/ \E h \in Handlers, ok \in BOOLEAN : SendFailureEmailReturns(h, ok)

Spec == Init /\ [][Next]_vars

\* Every started continuation of the callback eventually runs: the event loop
\* delivers each timer and each settled promise.
FairSpec == Spec /\ \A h \in Handlers : WF_vars(Resume(h))

(* ------------------- circuit breaker driven by any caller --------------- *)
\* The breaker module called in any order by any caller, as time passes.
CallRecordFailure ==
  /\ consecutiveFailures < MaxFailures
  /\ LET f == recordFailure(CB(consecutiveFailures, circuitOpenedAt), now)
     IN  BreakerCalled("recordFailure", f.cb, ret, f.log)
  /\ UNCHANGED <<now, isRunning, health, locals, lastLog, run, apart>>

CallRecordSuccess ==
  /\ LET s == recordSuccess(CB(consecutiveFailures, circuitOpenedAt))
     IN  BreakerCalled("recordSuccess", s.cb, ret, s.log)
  /\ UNCHANGED <<now, isRunning, health, locals, lastLog, run, apart>>

CallIsCircuitOpen ==
  /\ LET r == isCircuitOpen(CB(consecutiveFailures, circuitOpenedAt), now)
     IN  BreakerCalled("isCircuitOpen", r.cb, r.ret, r.log)
  /\ UNCHANGED <<now, isRunning, health, locals, lastLog, run, apart>>

CallGetStatus ==
  /\ LET s == getStatus(CB(consecutiveFailures, circuitOpenedAt), now)
     IN  BreakerCalled("getStatus", s.cb, s.isOpen, s.log)
  /\ UNCHANGED <<now, isRunning, health, locals, lastLog, run, apart>>

NextCB ==
  \/ Advance
  \/ CallRecordFailure
  \/ CallRecordSuccess
  \/ CallIsCircuitOpen
  \/ CallGetStatus

SpecCB == Init /\ [][NextCB]_vars

(* ------------------- one sync run, followed step by step ---------------- *)
\* The awaited calls of one runSync in program order: exportFromPacificTrack
\* (exporter.ts lines 38-71 and its finally block, line 84), then sync.ts
\* lines 40 and 46.  The three *Shot steps are the progress screenshots of
\* exporter.ts lines 51, 59 and 67.
Pipeline == <<"launchBrowser", "createPage", "setupDownloadBehavior", "login",
              "dashboardShot", "navigateToVehicles", "vehiclesShot",
              "triggerExport", "exportShot", "waitForDownload", "closeBrowser",
              "authenticateSupabase", "uploadToVtxUploads">>

IndexOf(s) == CHOOSE i \in 1..Len(Pipeline) : Pipeline[i] = s

\* The pipeline triggering the export before navigating to the vehicles page.
NextStep_TriggerFirst(s) ==
  LET P == <<"launchBrowser", "createPage", "setupDownloadBehavior", "login",
             "dashboardShot", "triggerExport", "vehiclesShot",
             "navigateToVehicles", "exportShot", "waitForDownload",
             "closeBrowser", "authenticateSupabase", "uploadToVtxUploads">>
      i == CHOOSE k \in 1..Len(P) : P[k] = s
  IN  P[i + 1]

\* The browser closed only after the upload, authentication and upload
\* running while the session of the export is still open.
NextStep_CloseLast(s) ==
  LET P == <<"launchBrowser", "createPage", "setupDownloadBehavior", "login",
             "dashboardShot", "navigateToVehicles", "vehiclesShot",
             "triggerExport", "exportShot", "waitForDownload",
             "authenticateSupabase", "uploadToVtxUploads", "closeBrowser">>
      i == CHOOSE k \in 1..Len(P) : P[k] = s
  IN  P[i + 1]

\* The call made after step s has returned normally.
NextStep(s) == Pipeline[IndexOf(s) + 1]

\* The try block of the export opened only once the page is set up.
ExportTry_FromLogin(s) ==
  s \in {"login", "dashboardShot", "navigateToVehicles", "vehiclesShot",
         "triggerExport", "exportShot", "waitForDownload"}

\* exporter.ts lines 40-81: the awaited calls inside the try block of
\* exportFromPacificTrack, whose exceptions pass through its finally block.
ExportTry(s) ==
  s \in {"createPage", "setupDownloadBehavior", "login", "dashboardShot",
         "navigateToVehicles", "vehiclesShot", "triggerExport", "exportShot",
         "waitForDownload"}

\* The try block of runSync opened after the export.
SyncTry_AfterExport(s) == s \in {"authenticateSupabase", "uploadToVtxUploads"}

\* sync.ts lines 27-91: the awaited calls inside the try block of runSync,
\* the export as a whole included.
SyncTry(s) == s \in {Pipeline[i] : i \in 1..Len(Pipeline)}
                    \cup {"setupDownloadDirectory"}

\* What can go wrong inside a call: nothing; a condition the function itself
\* reports with a categorised error ("own"); an exception of the page or the
\* network ("foreign"); and, in navigateToVehicles, a page without the
\* Actions button ("noButton"), which the function tolerates.
Faults == {"none", "own", "foreign", "noButton"}

ScreenshotError == PlainError("screenshot failed")
ForeignError == PlainError("timeout")

\* pacificTrack.ts lines 38-152.  The error thrown, or NoError.  shotOk tells
\* whether page.screenshot() works: both screenshots of login (lines 115 and
\* 139) sit in their own try/catch.
login(fault, shotOk) ==
  IF fault = "own"
    THEN CategorisedError(<<"Could not find login button">>, "login")
  ELSE IF fault = "foreign"
    THEN CategorisedError(<<"Login failed: ">> \o ForeignError.message, "login")
  ELSE NoError

\* pacificTrack.ts lines 162-228.  The screenshot of line 198, taken when no
\* Actions button is found, is not guarded: its exception reaches the outer
\* catch (line 206) and is wrapped like any other.
navigateToVehicles(fault, shotOk) ==
  IF fault = "own"
    THEN CategorisedError(<<"Navigation failed: ended up at another page">>,
                          "navigation")
  ELSE IF fault = "foreign"
    THEN CategorisedError(<<"Navigation failed: ">> \o ForeignError.message,
                          "navigation")
  ELSE IF fault = "noButton" /\ ~shotOk
    THEN CategorisedError(<<"Navigation failed: ">> \o ScreenshotError.message,
                          "navigation")
  ELSE NoError

\* pacificTrack.ts lines 238-383.  On the path without fault the screenshots
\* of lines 273 and 356 are taken outside any try/catch of their own.
triggerExport(fault, shotOk) ==
  IF fault = "own"
    THEN CategorisedError(<<"Could not find Export option in dropdown">>,
                          "export")
  ELSE IF fault = "foreign"
    THEN CategorisedError(<<"Export trigger failed: ">> \o ForeignError.message,
                          "export")
  ELSE IF ~shotOk
    THEN CategorisedError(<<"Export trigger failed: ">>
                            \o ScreenshotError.message, "export")
  ELSE NoError

\* pacificTrack.ts lines 457-513.
waitForDownload(fault, shotOk) ==
  IF fault = "own"
    THEN CategorisedError(<<"Downloaded file is not a valid XLSX (ZIP) format">>,
                          "export")
  ELSE IF fault = "foreign"
    THEN CategorisedError(<<"Download failed: ">> \o ForeignError.message,
                          "export")
  ELSE NoError

\* api.ts lines 19-61.
authenticateSupabase(fault) ==
  IF fault = "own"
    THEN CategorisedError(<<"Supabase authentication failed: ", "rejected">>,
                          "auth")
  ELSE IF fault = "foreign"
    THEN CategorisedError(<<"Supabase authentication error: ">>
                            \o ForeignError.message, "auth")
  ELSE NoError

\* Optional property f of the object r (optional chaining included).
Field(r, f) == IF f \in DOMAIN r THEN r[f] ELSE undefined

\* Response bodies of the upload endpoint; absent properties are absent.
Bodies ==
  {[success |-> TRUE],
   [success |-> FALSE, error |-> "duplicate_filename",
    code |-> "DUPLICATE_FILENAME"],
   [code |-> "DUPLICATE_FILENAME"],
   [error |-> "duplicate_filename"],
   [success |-> FALSE, error |-> "invalid file"],
   [success |-> FALSE]}

\* What `await axios.post(...)` can do: resolve with a body, reject with an
\* axios error that carries the response of the server, reject with an axios
\* error without response, or reject with anything else.
Responses ==
  {[outcome |-> "resolved", data |-> d] : d \in Bodies}
    \cup {[outcome |-> "axiosError", data |-> d] : d \in Bodies}
    \cup {[outcome |-> "axiosError"], [outcome |-> "error"]}

\* UploadResult values (types.ts lines 35-45), statistics left out.
UploadDone == [success |-> TRUE]
UploadSkipped == [success |-> TRUE, skipped |-> TRUE, reason |-> "duplicate"]

\* Has the call thrown this value rather than returned it?
IsThrown(r) == "message" \in DOMAIN r

\* api.ts lines 72-173: the UploadResult returned or the error thrown.
uploadToVtxUploads(resp) ==
  IF resp.outcome = "resolved"
    THEN IF Flag(resp.data, "success")
           THEN UploadDone
         ELSE IF \/ Field(resp.data, "code") = "DUPLICATE_FILENAME"
                 \/ Field(resp.data, "error") = "duplicate_filename"
           THEN UploadSkipped
         ELSE CategorisedError(
                <<"VTX Uploads API error: ",
                  IF Field(resp.data, "error") # undefined
                    THEN resp.data.error ELSE "Unknown error">>,
                "upload")
  ELSE IF resp.outcome = "axiosError"
    THEN LET data == IF "data" \in DOMAIN resp THEN resp.data ELSE <<>>
         IN  IF Field(data, "code") = "DUPLICATE_FILENAME"
               THEN UploadSkipped
             ELSE CategorisedError(
                    <<"VTX Uploads API request failed: ",
                      IF Field(data, "error") # undefined
                        THEN data.error ELSE "Request failed">>,
                    "upload")
  ELSE CategorisedError(<<"VTX Uploads API error: ">> \o ForeignError.message,
                        "upload")

\* Does a call with this fault take a screenshot at all?
TakesScreenshot(s, fault) ==
  \/ fault = "foreign"
  \/ fault = "own" /\ s # "waitForDownload"
  \/ s = "triggerExport" /\ fault = "none"
  \/ s = "navigateToVehicles" /\ fault = "noButton"

\* The run id of attempt o of the orchestrator (retry.ts line 54).
RunIdOf(o) == IF o = "secondary" THEN "run-retry" ELSE "run"

RunId == RunIdOf(orch)

\* runSync of attempt o returns res to runSyncWithRetry, which goes on to its
\* next suspension or to its return (retry.ts lines 32-51 and 61-92).
RunReturns(o, res) ==
  /\ step' = "none"
  /\ thrown' = NoError
  /\ runResult' = [runResult EXCEPT ![RunIdOf(o)] = res]
  /\ IF o = "primary"
     THEN IF NeedsRetry(res)
          THEN /\ orch' = "retryDelay"
               /\ retryAt' = now' + RETRY_DELAY_MS
               /\ returned' = returned
          ELSE /\ orch' = "returned"
               /\ retryAt' = retryAt
               /\ returned' = res
     ELSE /\ orch' = "returned"
          /\ retryAt' = retryAt
          /\ returned' = IF res.success
                         THEN RetrySucceeded(res, runResult["run"])
                         ELSE RetryExhausted(res, runResult["run"])

\* An exception leaves runSyncWithRetry, which has no try block.
Raise(e) ==
  /\ orch' = "raised"
  /\ step' = "none"
  /\ thrown' = e
  /\ UNCHANGED <<runResult, returned, retryAt>>

\* The call s of attempt o throws e: the innermost enclosing handler gets it.
Throw(o, s, e) ==
  IF ExportTry(s)
    THEN /\ step' = "closeBrowser"
         /\ started' = [started EXCEPT ![RunIdOf(o)] = Append(@, "closeBrowser")]
         /\ thrown' = e
         /\ orch' = o
         /\ UNCHANGED <<runResult, returned, retryAt>>
  ELSE IF SyncTry(s)
    THEN RunReturns(o, SyncFailure(e, now')) /\ started' = started
  ELSE Raise(e) /\ started' = started

\* The call s returns normally and the next call of the pipeline is made.
Proceed(s) ==
  /\ step' = NextStep(s)
  /\ started' = [started EXCEPT ![RunId] = Append(@, NextStep(s))]
  /\ UNCHANGED <<orch, thrown, runResult, returned, retryAt>>

\* The suspended call settles: normally when e is NoError, else throwing e.
Settles(e) == IF e = NoError THEN Proceed(step) ELSE Throw(orch, step, e)

\* Bookkeeping of what failed in the run: c is the error the call would have
\* thrown had every screenshot worked, shot tells that a screenshot failed.
Observed(c, shot) ==
  /\ cause' = IF cause[RunId] = NoError THEN [cause EXCEPT ![RunId] = c]
              ELSE cause
  /\ shotFailed' = [shotFailed EXCEPT ![RunId] = @ \/ shot]

\* runSync(runId) of attempt o up to its first suspension: sync.ts lines
\* 22-30 and exporter.ts lines 31-38.  setupDownloadDirectory is synchronous
\* and precedes the launch of the browser; mkdirSync may throw.
StartRun(o, mkdirOk) ==
  /\ IF mkdirOk
     THEN /\ dir' = [dir EXCEPT ![RunIdOf(o)] = "exists"]
          /\ orch' = o
          /\ step' = "launchBrowser"
          /\ started' = [started EXCEPT ![RunIdOf(o)] =
                           <<"setupDownloadDirectory", "launchBrowser">>]
          /\ UNCHANGED <<thrown, runResult, returned, retryAt, cause>>
     ELSE /\ dir' = dir
          /\ cause' = [cause EXCEPT ![RunIdOf(o)] = PlainError("mkdir failed")]
          /\ Throw(o, "setupDownloadDirectory", PlainError("mkdir failed"))
  /\ UNCHANGED <<browser, cleaned, shotFailed, scheduler, apart>>

\* retry.ts lines 28-32: a caller calls runSyncWithRetry.
CallRunSyncWithRetry(mkdirOk) ==
  /\ orch = "idle"
  /\ now' = now
  /\ StartRun("primary", mkdirOk)

\* retry.ts lines 51-61: the sleep timer fires, no earlier than its deadline,
\* and the secondary run starts.
RetrySleepElapsed(mkdirOk) ==
  /\ orch = "retryDelay"
  /\ now' = Max(now, retryAt)
  /\ StartRun("secondary", mkdirOk)

\* browser.ts lines 8-34, awaited at exporter.ts line 38.
LaunchBrowserReturns(ok) ==
  /\ step = "launchBrowser"
  /\ now' = now
  /\ browser' = IF ok THEN [browser EXCEPT ![RunId] = "open"] ELSE browser
  /\ LET e == IF ok THEN NoError ELSE PlainError("launch failed")
     IN  Settles(e) /\ Observed(e, FALSE)
  /\ UNCHANGED <<dir, cleaned, scheduler, apart>>

\* browser.ts lines 60-73, awaited at exporter.ts line 41.
CreatePageReturns(ok) ==
  /\ step = "createPage"
  /\ now' = now
  /\ LET e == IF ok THEN NoError ELSE PlainError("newPage failed")
     IN  Settles(e) /\ Observed(e, FALSE)
  /\ UNCHANGED <<browser, dir, cleaned, scheduler, apart>>

\* pacificTrack.ts lines 393-443, awaited at exporter.ts line 44.
SetupDownloadBehaviorReturns(ok) ==
  /\ step = "setupDownloadBehavior"
  /\ now' = now
  /\ LET e == IF ok THEN NoError ELSE PlainError("CDP session failed")
     IN  Settles(e) /\ Observed(e, FALSE)
  /\ UNCHANGED <<browser, dir, cleaned, scheduler, apart>>

\* exporter.ts line 47.
LoginReturns(fault, shotOk) ==
  /\ step = "login"
  /\ now' = now
  /\ Settles(login(fault, shotOk))
  /\ Observed(login(fault, TRUE), TakesScreenshot(step, fault) /\ ~shotOk)
  /\ UNCHANGED <<browser, dir, cleaned, scheduler, apart>>

\* exporter.ts lines 51, 59 and 67: page.screenshot() awaited directly in the
\* try block of exportFromPacificTrack.
ProgressScreenshotReturns(shotOk) ==
  /\ step \in {"dashboardShot", "vehiclesShot", "exportShot"}
  /\ now' = now
  /\ Settles(IF shotOk THEN NoError ELSE ScreenshotError)
  /\ Observed(NoError, ~shotOk)
  /\ UNCHANGED <<browser, dir, cleaned, scheduler, apart>>

\* exporter.ts line 55.
NavigateToVehiclesReturns(fault, shotOk) ==
  /\ step = "navigateToVehicles"
  /\ now' = now
  /\ Settles(navigateToVehicles(fault, shotOk))
  /\ Observed(navigateToVehicles(fault, TRUE),
              TakesScreenshot(step, fault) /\ ~shotOk)
  /\ UNCHANGED <<browser, dir, cleaned, scheduler, apart>>

\* exporter.ts line 63.
TriggerExportReturns(fault, shotOk) ==
  /\ step = "triggerExport"
  /\ now' = now
  /\ Settles(triggerExport(fault, shotOk))
  /\ Observed(triggerExport(fault, TRUE),
              TakesScreenshot(step, fault) /\ ~shotOk)
  /\ UNCHANGED <<browser, dir, cleaned, scheduler, apart>>

\* exporter.ts line 71.
WaitForDownloadReturns(fault, shotOk) ==
  /\ step = "waitForDownload"
  /\ now' = now
  /\ Settles(waitForDownload(fault, shotOk))
  /\ Observed(waitForDownload(fault, TRUE),
              TakesScreenshot(step, fault) /\ ~shotOk)
  /\ UNCHANGED <<browser, dir, cleaned, scheduler, apart>>

\* The finally block of exportFromPacificTrack (exporter.ts lines 82-89):
\* closeBrowser (browser.ts lines 40-55) is awaited, then the directory is
\* cleaned up (download.ts lines 120-138), then the export returns its result
\* or rethrows the pending exception.  closeBrowser never throws: an error of
\* browser.close() is caught and logged, the browser being then "already
\* closed" (lines 38 and 49).  cleanupDownloadDirectory never throws either:
\* when rmOk is false the removal failed and the directory stays.
CloseBrowserReturns(rmOk) ==
  /\ step = "closeBrowser"
  /\ now' = now
  /\ browser' = [browser EXCEPT ![RunId] = "closed"]
  /\ cleaned' = cleaned \cup {RunId}
  /\ dir' = IF rmOk THEN [dir EXCEPT ![RunId] = "removed"] ELSE dir
  /\ IF thrown = NoError
     THEN Proceed(step)
     ELSE Throw(orch, step, thrown)
  /\ UNCHANGED <<cause, shotFailed, scheduler, apart>>

\* sync.ts line 40.
AuthenticateSupabaseReturns(fault) ==
  /\ step = "authenticateSupabase"
  /\ now' = now
  /\ Settles(authenticateSupabase(fault))
  /\ Observed(authenticateSupabase(fault), FALSE)
  /\ UNCHANGED <<browser, dir, cleaned, scheduler, apart>>

\* sync.ts lines 46-90: the upload returns and runSync builds its result.
UploadToVtxUploadsReturns(resp) ==
  /\ step = "uploadToVtxUploads"
  /\ now' = now
  /\ LET uploadResult == uploadToVtxUploads(resp)
     IN  IF IsThrown(uploadResult)
           THEN Throw(orch, step, uploadResult) /\ Observed(uploadResult, FALSE)
         ELSE /\ RunReturns(orch, SyncSuccess(now'))
              /\ started' = started
              /\ Observed(NoError, FALSE)
  /\ UNCHANGED <<browser, dir, cleaned, scheduler, apart>>

CallFaults == {"none", "own", "foreign"}

\* Time passes while the call of runSyncWithRetry is in progress.
Elapse ==
  /\ orch \in {"primary", "retryDelay", "secondary"}
  /\ Advance

NextRun ==
  \/ Elapse
  \/ \E mkdirOk \in BOOLEAN : CallRunSyncWithRetry(mkdirOk)
  \/ \E ok \in BOOLEAN : LaunchBrowserReturns(ok)
  \/ \E ok \in BOOLEAN : CreatePageReturns(ok)
  \/ \E ok \in BOOLEAN : SetupDownloadBehaviorReturns(ok)
  \/ \E f \in CallFaults, shotOk \in BOOLEAN : LoginReturns(f, shotOk)
  \/ \E shotOk \in BOOLEAN : ProgressScreenshotReturns(shotOk)
  \/ \E f \in Faults, shotOk \in BOOLEAN : NavigateToVehiclesReturns(f, shotOk)
  \/ \E f \in CallFaults, shotOk \in BOOLEAN : TriggerExportReturns(f, shotOk)
  \/ \E f \in CallFaults, shotOk \in BOOLEAN : WaitForDownloadReturns(f, shotOk)
  \/ \E rmOk \in BOOLEAN : CloseBrowserReturns(rmOk)
  \/ \E f \in CallFaults : AuthenticateSupabaseReturns(f)
  \/ \E resp \in Responses : UploadToVtxUploadsReturns(resp)
  \/ \E mkdirOk \in BOOLEAN : RetrySleepElapsed(mkdirOk)

\* One call of runSyncWithRetry followed through every step of its runs.
SpecRun == Init /\ [][NextRun]_vars

(* ------------------------------ calendar -------------------------------- *)
\* scheduler.ts line 92: '0,30 5-22 * * *', the minute and hour fields (day
\* of month, month and day of week are `*`), evaluated in the timezone of
\* line 93.
cronExpression == [minute |-> {0, 30}, hour |-> 5..22]

\* node-cron's match of a wall-clock time against the expression.
CronMatches(t) ==
  t.minute \in cronExpression.minute /\ t.hour \in cronExpression.hour

\* Date.prototype.setHours(h, 0, 0, 0) and setMinutes(m, 0, 0).
setHours(t, h) == [t EXCEPT !.hour = h, !.minute = 0]
setMinutes(t, m) == [t EXCEPT !.minute = m]

\* setDate(getDate() + 1).
NextDay(t) == [t EXCEPT !.day = @ + 1]

\* scheduler.ts lines 40-80, pt being the current Pacific wall-clock time.
getNextRunTime(pt) ==
  LET currentHour == pt.hour
      currentMinute == pt.minute
  IN  IF currentHour >= 22
        THEN setHours(NextDay(pt), 5)
      ELSE IF currentHour < 5
        THEN setHours(pt, 5)
      ELSE LET nextRun == IF currentMinute < 30
                            THEN setMinutes(pt, 30)
                            ELSE setMinutes([pt EXCEPT !.hour = @ + 1], 0)
           IN  IF nextRun.hour >= 22
                 THEN setHours(NextDay(nextRun), 5)
                 ELSE nextRun

\* The wall clock one minute later.
NextMinute(t) ==
  IF t.minute < 59 THEN [t EXCEPT !.minute = @ + 1]
  ELSE IF t.hour < 23 THEN [t EXCEPT !.hour = @ + 1, !.minute = 0]
  ELSE [day |-> t.day + 1, hour |-> 0, minute |-> 0]

\* A minute passes on the wall clock; the cron task fires when the new minute
\* matches its expression (scheduler.ts lines 92-108).
MinutePasses ==
  /\ pacificTime.day < MaxDays
  /\ pacificTime' = NextMinute(pacificTime)
  /\ nextRunTime' = Never
  /\ LET before == IF pacificTime'.day = pacificTime.day
                     THEN triggersToday ELSE 0
     IN  IF CronMatches(pacificTime')
           THEN /\ lastTrigger' = pacificTime'
                /\ triggersToday' = before + 1
           ELSE /\ lastTrigger' = lastTrigger
                /\ triggersToday' = before
  /\ UNCHANGED <<now, scheduler, run, capture, ids, trigger>>

\* getHealthStatus() asks for the next run time (healthcheck lines 32-68).
CallGetNextRunTime ==
  /\ nextRunTime' = getNextRunTime(pacificTime)
  /\ UNCHANGED <<pacificTime, lastTrigger, triggersToday>>
  /\ UNCHANGED <<now, scheduler, run, capture, ids, trigger>>

NextCal ==
  \/ MinutePasses
  \/ CallGetNextRunTime

\* The trigger calendar and the next-run computation over MaxDays days.
SpecCal == Init /\ [][NextCal]_vars

(* --------------------------- download capture --------------------------- *)
\* In this part one clock unit is 100 ms.

\* No file that ends with the expected extension is in the directory: only
\* files bearing a partial-download marker, or none.
OnlyPartialIn(fs) ==
  \A f \in FileNames : fs[f] # Absent => ~endsWith(f, ".xlsx")

\* The browser, or anything else, changes the download directory.
DirectoryChanges(exists, fs) ==
  /\ wpc \notin {"accepted", "failed"}
  /\ dirExists' = exists
  /\ files' = fs
  /\ onlyPartial' = (onlyPartial /\ (wpc = "idle" \/ OnlyPartialIn(fs)))
  /\ UNCHANGED <<wpc, startTime, pollAt, filePath, firstSize, newSize, wake,
                 waited, buffer, artifact, dlError>>
  /\ UNCHANGED <<now, scheduler, run, calendar, ids, trigger>>

MkDir ==
  /\ ~dirExists
  /\ DirectoryChanges(TRUE, files)

RmDir ==
  /\ dirExists
  /\ DirectoryChanges(FALSE, [f \in FileNames |-> Absent])

FileWritten(f, c) ==
  /\ dirExists
  /\ files[f] # c
  /\ DirectoryChanges(TRUE, [files EXCEPT ![f] = c])

FileRemoved(f) ==
  /\ files[f] # Absent
  /\ DirectoryChanges(TRUE, [files EXCEPT ![f] = Absent])

\* download.ts line 67: the loop of waitForFile waits for the next poll.
NextPoll(t) ==
  /\ wpc' = "sleep"
  /\ wake' = t + pollInterval
  /\ UNCHANGED <<waited, buffer, artifact, dlError, dirExists, files>>

\* One pass of the loop of waitForFile at time t up to its first suspension
\* (download.ts lines 35-70), the loop having started at t0.  fsOk tells
\* whether readdirSync and statSync work; a failure is swallowed (line 62).
\* When the time is up the timeout error is thrown, which waitForDownload
\* wraps (pacificTrack.ts lines 491-512).
Poll(t0, t, fsOk, shotOk) ==
  /\ newSize' = null
  /\ IF TimeLeft(t0, t)
     THEN /\ pollAt' = t
          /\ LET xlsxFiles == {f \in FileNames :
                                 files[f] # Absent /\ IsXlsxFile(f)}
             IN  IF fsOk /\ dirExists /\ xlsxFiles # {}
                   THEN \E f \in xlsxFiles :
                          /\ filePath' = f
                          /\ firstSize' = files[f].size
                          /\ IF files[f].size > 0
                               THEN /\ wpc' = "settle"
                                    /\ wake' = t + settleDelay
                                    /\ UNCHANGED <<waited, buffer, artifact,
                                                   dlError, dirExists, files>>
                               ELSE NextPoll(t)
                   ELSE /\ filePath' = NoPath
                        /\ firstSize' = null
                        /\ NextPoll(t)
     ELSE /\ wpc' = "failed"
          /\ waited' = "timeout"
          /\ dlError' = waitForDownload("foreign", shotOk)
          /\ wake' = null
          /\ UNCHANGED <<pollAt, filePath, firstSize, buffer, artifact,
                         dirExists, files>>

\* waitForDownload is called (pacificTrack.ts line 457) and waitForFile runs
\* up to its first suspension.
CallWaitForDownload(fsOk, shotOk) ==
  /\ wpc = "idle"
  /\ now' = now
  /\ startTime' = now
  /\ onlyPartial' = OnlyPartialIn(files)
  /\ Poll(now, now, fsOk, shotOk)
  /\ UNCHANGED <<scheduler, run, calendar, ids, trigger>>

\* The poll timer of line 67 fires and the loop makes its next pass.
PollElapsed(fsOk, shotOk) ==
  /\ wpc = "sleep"
  /\ now' = Max(now, wake)
  /\ Poll(startTime, now', fsOk, shotOk)
  /\ UNCHANGED <<startTime, onlyPartial>>
  /\ UNCHANGED <<scheduler, run, calendar, ids, trigger>>

\* cleanupDownload (download.ts lines 91-113): best effort, the directory is
\* removed with its last file.
cleanupDownload(f, cleanOk) ==
  IF cleanOk
    THEN /\ files' = [files EXCEPT ![f] = Absent]
         /\ dirExists' = (\E g \in FileNames \ {f} : files[g] # Absent)
    ELSE UNCHANGED <<dirExists, files>>

\* waitForFile has returned the path: the rest of waitForDownload
\* (pacificTrack.ts lines 469-489).  readOk tells whether readFileSync works.
FileFound(content, readOk, cleanOk, shotOk) ==
  /\ waited' = "returned"
  /\ wake' = null
  /\ IF ~readOk
     THEN /\ wpc' = "failed"
          /\ dlError' = CategorisedError(<<"Download failed: ", "read error">>,
                                         "export")
          /\ UNCHANGED <<buffer, artifact, dirExists, files>>
     ELSE /\ buffer' = content
          /\ IF ValidSignature(content)
             THEN /\ wpc' = "accepted"
                  /\ artifact' = [filename |-> filePath,
                                  size |-> content.size,
                                  magic |-> content.magic]
                  /\ cleanupDownload(filePath, cleanOk)
                  /\ dlError' = dlError
             ELSE /\ wpc' = "failed"
                  /\ dlError' = waitForDownload("own", shotOk)
                  /\ UNCHANGED <<artifact, dirExists, files>>

\* The settle timer of line 54 fires: the second reading of the size (lines
\* 55-58).  A file that is gone makes statSync throw, which is swallowed.
SettleElapsed(fsOk, readOk, cleanOk, shotOk) ==
  /\ wpc = "settle"
  /\ now' = Max(now, wake)
  /\ IF fsOk /\ files[filePath] # Absent
     THEN /\ newSize' = files[filePath].size
          /\ IF SizeStable(files[filePath].size, firstSize)
             THEN FileFound(files[filePath], readOk, cleanOk, shotOk)
             ELSE NextPoll(now')
     ELSE /\ newSize' = null
          /\ NextPoll(now')
  /\ UNCHANGED <<startTime, pollAt, filePath, firstSize, onlyPartial>>
  /\ UNCHANGED <<scheduler, run, calendar, ids, trigger>>

\* Time passes while the capture waits.
ElapseCapture ==
  /\ wpc \in {"settle", "sleep"}
  /\ Advance

NextCapture ==
  \/ ElapseCapture
  \/ MkDir
  \/ RmDir
  \/ \E f \in FileNames : \E c \in Contents(f) : FileWritten(f, c)
  \/ \E f \in FileNames : FileRemoved(f)
  \/ \E fsOk, shotOk \in BOOLEAN : CallWaitForDownload(fsOk, shotOk)
  \/ \E fsOk, shotOk \in BOOLEAN : PollElapsed(fsOk, shotOk)
  \/ \E fsOk, readOk, cleanOk, shotOk \in BOOLEAN :
       SettleElapsed(fsOk, readOk, cleanOk, shotOk)

\* One call of waitForDownload against a directory that changes freely.
SpecCapture == Init /\ [][NextCapture]_vars

\* Timers that are due fire.
FairSpecCapture ==
  /\ SpecCapture
  /\ WF_vars(\E fsOk, shotOk \in BOOLEAN : PollElapsed(fsOk, shotOk))
  /\ WF_vars(\E fsOk, readOk, cleanOk, shotOk \in BOOLEAN :
               SettleElapsed(fsOk, readOk, cleanOk, shotOk))

(* --------------------------- export trigger ---------------------------- *)
\* Text is a sequence of words and blanks.  String.prototype.toLowerCase on
\* the words used here.
toLowerCase(t) ==
  [i \in 1..Len(t) |->
     CASE t[i] \in {"EXPORT", "Export"} -> "export"
       [] t[i] = "All" -> "all"
       [] t[i] = "Import" -> "import"
       [] OTHER -> t[i]]

\* String.prototype.trim: blanks at both ends are removed.
RECURSIVE trim(_)
trim(t) ==
  IF t = <<>> THEN t
  ELSE IF Head(t) = " " THEN trim(Tail(t))
  ELSE IF t[Len(t)] = " " THEN trim(SubSeq(t, 1, Len(t) - 1))
  ELSE t

\* pacificTrack.ts lines 296-297 and 307-308: text === 'export' ||
\* text.startsWith('export'), text being the trimmed lower-case textContent.
ExportOrPrefix(text) ==
  LET t == toLowerCase(trim(text))
  IN  t = <<"export">> \/ (t # <<>> /\ Head(t) = "export")

\* pacificTrack.ts lines 316-317: text === 'export'.
ExportExactly(text) == toLowerCase(trim(text)) = <<"export">>

\* Element texts: one that equals "export" once trimmed and lower-cased, one
\* that only starts with it, one that does neither.
Texts == {<<" ", "EXPORT", " ">>, <<"Export", " ", "All">>, <<"Import">>}

NoChild == [tag |-> "none", text |-> <<>>]

\* The elements of the rendered page that the three selectors of lines 294,
\* 305 and 314 can tell apart.  where says whether the element is inside a
\* .dropdown-menu ("menu"), carries the class dropdown-item outside of one
\* ("item") or neither ("page"); text is the element's own text, child its
\* nested button or link.
Elements ==
  {[tag |-> "BUTTON", text |-> t, where |-> "menu", child |-> NoChild] :
     t \in Texts}
  \cup {[tag |-> "A", text |-> t, where |-> w, child |-> NoChild] :
          t \in Texts, w \in {"menu", "item", "page"}}
  \cup {[tag |-> "DIV", text |-> t, where |-> "item", child |-> NoChild] :
          t \in Texts}
  \cup {[tag |-> "LI", text |-> t, where |-> "menu",
         child |-> [tag |-> c, text |-> <<>>]] :
          t \in Texts, c \in {"none", "BUTTON", "A"}}
  \cup {[tag |-> "LI", text |-> <<>>, where |-> "menu",
         child |-> [tag |-> c, text |-> <<"Export">>]] : c \in {"BUTTON", "A"}}

Doms == SeqsUpTo(Elements, MaxElements)

\* The nodes of the document in document order, each with its textContent
\* (own text and the text of its descendants) and, for a container, the tag
\* of the first nested button or link (item.querySelector('button, a')).
RECURSIVE Nodes(_)
Nodes(d) ==
  IF d = <<>> THEN <<>>
  ELSE LET e == Head(d)
           self == [tag |-> e.tag, text |-> e.text \o e.child.text,
                    where |-> e.where, nestedBtn |-> e.child.tag]
           nested == [tag |-> e.child.tag, text |-> e.child.text,
                      where |-> IF e.where = "menu" THEN "menu" ELSE "page",
                      nestedBtn |-> "none"]
       IN  (IF e.child.tag = "none" THEN <<self>> ELSE <<self, nested>>)
             \o Nodes(Tail(d))

\* Positions of the nodes a selector matches, in document order.
\* Line 294: 'button'.
IsButton(n) == n.tag = "BUTTON"
\* Line 305: '.dropdown-menu a, a.dropdown-item'.
IsDropdownLink(n) == n.tag = "A" /\ n.where \in {"menu", "item"}
\* Line 314: '.dropdown-menu li, .dropdown-item'.
IsDropdownItem(n) == (n.tag = "LI" /\ n.where = "menu") \/ n.where = "item"

\* The first position of S, 0 when there is none.
First(S) == IF S = {} THEN 0 ELSE CHOOSE i \in S : \A j \in S : i <= j

\* Lines 294-302: the first button whose text is or starts with "export".
ClickButton(d) ==
  LET n == Nodes(d)
      i == First({k \in 1..Len(n) : IsButton(n[k]) /\ ExportOrPrefix(n[k].text)})
  IN  IF i = 0 THEN NothingClicked
      ELSE [clicked |-> TRUE, element |-> "BUTTON", at |-> i,
            target |-> n[i].tag]

\* Lines 305-312: the first dropdown link whose text is or starts with
\* "export".
ClickLink(d) ==
  LET n == Nodes(d)
      i == First({k \in 1..Len(n) :
                    IsDropdownLink(n[k]) /\ ExportOrPrefix(n[k].text)})
  IN  IF i = 0 THEN NothingClicked
      ELSE [clicked |-> TRUE, element |-> "A", at |-> i, target |-> n[i].tag]

\* Lines 314-328: the first dropdown item whose text is "export": its nested
\* button or link is clicked, the item itself when it has none.
ClickItem(d) ==
  LET n == Nodes(d)
      i == First({k \in 1..Len(n) :
                    IsDropdownItem(n[k]) /\ ExportExactly(n[k].text)})
  IN  IF i = 0 THEN NothingClicked
      ELSE IF n[i].nestedBtn # "none"
        THEN [clicked |-> TRUE, element |-> "Nested", at |-> i + 1,
              target |-> n[i].nestedBtn]
      ELSE [clicked |-> TRUE, element |-> "LI", at |-> i, target |-> n[i].tag]

\* Dropdown items before buttons and links.
clickExport_ItemsFirst(d) ==
  IF ClickItem(d).clicked THEN ClickItem(d)
  ELSE IF ClickButton(d).clicked THEN ClickButton(d)
  ELSE ClickLink(d)

\* pacificTrack.ts lines 292-332, the second page.evaluate() of
\* triggerExport: buttons, then dropdown links, then dropdown items.
clickExport(d) ==
  IF ClickButton(d).clicked THEN ClickButton(d)
  ELSE IF ClickLink(d).clicked THEN ClickLink(d)
  ELSE ClickItem(d)

\* The vehicles page is rendered (navigateToVehicles has returned).
Render ==
  /\ tpc \in {"unloaded", "closed"}
  /\ \E d \in Doms : dom' = d
  /\ tpc' = "rendered"
  /\ UNCHANGED <<now, scheduler, run, calendar, capture, ids, clicked,
                 triggered, triggerError>>

\* Lines 238-275: triggerExport is called; the Actions button, looked up by
\* the selectors of lines 243 and 247, is clicked and the dropdown
\* screenshot taken.  found tells whether a selector matched, shotOk whether
\* page.screenshot() works.
CallTriggerExport(found, shotOk) ==
  /\ tpc = "rendered"
  /\ triggerError' =
       IF ~found
         THEN CategorisedError(<<"Could not find Actions button">>, "export")
       ELSE triggerExport("none", shotOk)
  /\ tpc' = IF triggerError' = NoError THEN "dropdown" ELSE "failed"
  /\ UNCHANGED <<now, scheduler, run, calendar, capture, ids, dom, clicked,
                 triggered>>

\* Lines 277-345: the DOM is evaluated and the export element clicked; with
\* nothing clicked the guarded screenshot is taken and the error thrown.
EvaluateClick ==
  /\ tpc = "dropdown"
  /\ clicked' = clickExport(dom)
  /\ triggerError' =
       IF clicked'.clicked THEN NoError ELSE triggerExport("own", TRUE)
  /\ tpc' = IF clicked'.clicked THEN "clicked" ELSE "failed"
  /\ UNCHANGED <<now, scheduler, run, calendar, capture, ids, dom, triggered>>

\* Lines 347-360: two seconds later the post-export screenshot is taken and
\* true returned; lines 362-382 wrap the error of a failed screenshot.
PostExportShot(shotOk) ==
  /\ tpc = "clicked"
  /\ triggerError' = triggerExport("none", shotOk)
  /\ triggered' = (triggerError' = NoError)
  /\ tpc' = IF triggered' THEN "returned" ELSE "failed"
  /\ UNCHANGED <<now, scheduler, run, calendar, capture, ids, dom, clicked>>

\* The run ends and its page is closed (exporter.ts, finally block).
ClosePage ==
  /\ tpc \in {"returned", "failed"}
  /\ dom' = <<>>
  /\ tpc' = "closed"
  /\ clicked' = NothingClicked
  /\ triggered' = FALSE
  /\ triggerError' = NoError
  /\ UNCHANGED <<now, scheduler, run, calendar, capture, ids>>

NextTriggerExport ==
  \/ Render
  \/ \E found, shotOk \in BOOLEAN : CallTriggerExport(found, shotOk)
  \/ EvaluateClick
  \/ \E shotOk \in BOOLEAN : PostExportShot(shotOk)
  \/ ClosePage

SpecTrigger == Init /\ [][NextTriggerExport]_vars

(* ------------------------------ run ids -------------------------------- *)
\* scheduler.ts line 128 and index.ts line 15 generate a run id and pass it to
\* runSyncWithRetry (retry.ts line 28), whose primary runSync sets up its
\* download directory (exporter.ts line 35).
StartRunWithId(runId) ==
  /\ primaryId' = runId
  /\ retryId' = NoId
  /\ paths' = [primary |-> setupDownloadDirectory(runId), secondary |-> NoPath]
  /\ UNCHANGED <<now, scheduler, run, calendar, capture, derived, trigger>>

\* retry.ts lines 54-61: the primary run failed retryably; the retry id is
\* derived and the secondary runSync sets up its download directory.
DeriveRetryId ==
  /\ primaryId # NoId
  /\ retryId = NoId
  /\ retryId' = retryRunId(primaryId)
  /\ paths' = [paths EXCEPT !.secondary = setupDownloadDirectory(retryId')]
  /\ derived' = [derived EXCEPT ![primaryId] = @ \cup {retryId'}]
  /\ UNCHANGED <<now, scheduler, run, calendar, capture, primaryId, trigger>>

NextIds ==
  \/ \E runId \in GeneratedIds : StartRunWithId(runId)
  \/ DeriveRetryId

SpecIds == Init /\ [][NextIds]_vars

(* ============================== properties ============================= *)
InFlight == {h \in Handlers : pc[h] # "idle"}

\* Positions at which the orchestrator has returned a result to the callback.
Settled == {"sendSuccessEmail", "sendFailureAlert", "sendFailureEmail"}

\* The step on which invocation h receives the outcome of its attempt.
AttemptConcludes(h) ==
  /\ pc[h] \in {"primary", "secondary"}
  /\ pc'[h] \in Settled \cup {"idle"}

\* The breaker is open and less than one hour has passed since it opened.
OpenWithinWindow ==
  /\ circuitOpenedAt # null
  /\ consecutiveFailures >= 5
  /\ now - circuitOpenedAt < UnitsPerHour

(* C1: at most one attempt is in flight at any time, and the in-flight     *)
(* guard is set exactly while an attempt is in flight (jitter, primary     *)
(* run, retry delay, secondary run, notifications).                        *)
C1_SingleAttemptInFlight ==
  /\ Cardinality(InFlight) <= 1
  /\ (InFlight # {}) <=> isRunning

C1_Witness ==
  /\ lastLog = "skip_running"
  /\ \E h \in Handlers : pc[h] = "secondary"

(* C2: a tick that fires while the guard is true starts no attempt, leaves *)
(* the guard true, leaves the breaker unchanged and leaves nothing pending *)
(* (no invocation changes position, so nothing is queued).                 *)
C2_OverlapTickSkipped ==
  [][\A h \in Handlers :
       (isRunning /\ Tick(h)) =>
         (isRunning' /\ UNCHANGED <<breaker, locals, health, now>>)]_vars

C2_Witness ==
  /\ isRunning
  /\ lastLog = "skip_running"
  /\ \E h \in Handlers : pc[h] = "jitter"

(* C3: every tick that sets the in-flight guard eventually clears it, on   *)
(* every exit path of the attempt.                                         *)
C3_GuardEventuallyCleared == isRunning ~> ~isRunning

C3_Witness ==
  /\ ~isRunning
  /\ lastLog = "unexpected_error"

(* C4: from a closed breaker with counter 0, the 5th consecutive           *)
(* recordFailure() sets the open timestamp to the time of that call and    *)
(* isOpen() is true until the reset window elapses; after 4 or fewer calls *)
(* no open timestamp is set and isOpen() is false.                         *)
C4_OpensAtFifthFailure ==
  /\ [](streak <= 4 =>
          /\ circuitOpenedAt = null
          /\ ~isCircuitOpen(CB(consecutiveFailures, circuitOpenedAt), now).ret)
  /\ [][(CallRecordFailure /\ streak = 4) =>
          /\ streak' = 5
          /\ circuitOpenedAt' = now
          /\ \A t \in now..(now + UnitsPerHour - 1) :
               isCircuitOpen(CB(consecutiveFailures', circuitOpenedAt'), t).ret]_vars

C4_Witness ==
  /\ streak = 5
  /\ op = "isCircuitOpen"
  /\ ret = TRUE
  /\ circuitOpenedAt # null

(* C5: from any breaker state recordSuccess() sets the counter to 0 and    *)
(* clears the open timestamp, so that isOpen() returns false afterwards.   *)
C5_SuccessCloses ==
  [][CallRecordSuccess =>
       /\ consecutiveFailures' = 0
       /\ circuitOpenedAt' = null
       /\ \A t \in now..(MaxTime + 1) :
            ~isCircuitOpen(CB(consecutiveFailures', circuitOpenedAt'), t).ret]_vars

C5_Witness ==
  /\ op = "recordSuccess"
  /\ cbLog = "closed"
  /\ consecutiveFailures = 0
  /\ circuitOpenedAt = null

(* C6: isOpen() on an open breaker returns false and resets counter and    *)
(* open timestamp when at least one hour has passed since the open         *)
(* timestamp; before that it returns true and changes nothing.             *)
C6_AutoResetAfterWindow ==
  [][(CallIsCircuitOpen /\ circuitOpenedAt # null /\ consecutiveFailures >= 5) =>
       IF now - circuitOpenedAt >= UnitsPerHour
       THEN ret' = FALSE /\ consecutiveFailures' = 0 /\ circuitOpenedAt' = null
       ELSE ret' = TRUE /\ UNCHANGED breaker]_vars

C6_Witness ==
  /\ op = "isCircuitOpen"
  /\ cbLog = "auto_reset"
  /\ ret = FALSE
  /\ consecutiveFailures = 0
  /\ streak = 0

(* C7: a tick at which the breaker is open and less than one hour has      *)
(* passed since it opened starts no attempt: the guard is not set, no      *)
(* jitter wait begins and the orchestrator is not invoked.                 *)
C7_OpenBreakerBlocksTick ==
  [][\A h \in Handlers :
       (Tick(h) /\ OpenWithinWindow) =>
         (isRunning' = isRunning /\ UNCHANGED locals)]_vars

C7_Witness ==
  /\ lastLog = "skip_circuit"
  /\ ~isRunning
  /\ OpenWithinWindow

(* C8: a tick skipped because the breaker is open does not call            *)
(* recordFailure(), leaves the counter and the open timestamp unchanged,   *)
(* sends no notification and does not update the last-run status.          *)
C8_OpenSkipLeavesBreaker ==
  [][\A h \in Handlers :
       (Tick(h) /\ ~isRunning /\ OpenWithinWindow) =>
         /\ UNCHANGED <<breaker, health, calls>>
         /\ op' # "recordFailure"]_vars

(* C9 as stated: the counter and the open timestamp change only on the    *)
(* step on which an attempt concludes.                                     *)
C9_OnlyAfterAttempt ==
  [][(breaker' # breaker) => \E h \in Handlers : AttemptConcludes(h)]_vars

(* C9 amended: the counter and the open timestamp change only (a) by       *)
(* recordSuccess() / recordFailure() on the step on which an attempt       *)
(* concludes, or (b) by the auto-reset of a tick's isOpen() / getStatus()  *)
(* whose clock read is at least one hour past the open timestamp.          *)
C9_OnlyAfterAttemptOrAutoReset ==
  [][(breaker' # breaker) =>
       \/ \E h \in Handlers :
            AttemptConcludes(h) /\ op' \in {"recordSuccess", "recordFailure"}
       \/ \E h \in Handlers :
            /\ Tick(h)
            /\ circuitOpenedAt # null
            /\ now' - circuitOpenedAt >= UnitsPerHour
            /\ consecutiveFailures' = 0
            /\ circuitOpenedAt' = null]_vars

C9_Witness ==
  /\ cbLog = "auto_reset"
  /\ lastLog = "triggered"
  /\ op = "isCircuitOpen"
  /\ consecutiveFailures = 0

(* C10: a failed primary run is followed by exactly one secondary run and  *)
(* never a third; a successful primary run is followed by no secondary run *)
(* and no retry delay.                                                     *)
C10_OneRetryOnly ==
  /\ [](\A h \in Handlers :
          /\ runs[h] <= 2
          /\ pc[h] = "secondary" => (~firstResult[h].success /\ runs[h] = 2)
          /\ pc[h] \in Settled =>
               IF firstResult[h].success
               THEN runs[h] = 1 /\ sleeps[h] = 0
               ELSE runs[h] = 2 /\ sleeps[h] = 1)
  /\ [][\A h \in Handlers :
          (pc[h] = "primary" /\ pc'[h] # "primary") =>
            \/ /\ pc'[h] = "retryDelay"
               /\ ~firstResult'[h].success
               /\ runs'[h] = 1
            \/ /\ pc'[h] = "sendSuccessEmail"
               /\ firstResult'[h].success
               /\ sleeps'[h] = 0
               /\ now' = now
            \/ /\ pc'[h] = "idle"
               /\ lastLog' = "unexpected_error"]_vars

C10_Witness ==
  \E h \in Handlers :
    /\ pc[h] = "sendFailureAlert"
    /\ runs[h] = 2
    /\ ~firstResult[h].success

\* The secondary run of the call followed in detail has returned.
SecondaryRan == runResult["run-retry"] # NoResult

RetryFields == {"wasRetry", "isRetryExhausted", "originalError"}

(* C11: in the result returned by runSyncWithRetry, wasRetry is true iff a *)
(* secondary run was executed; isRetryExhausted is true iff the secondary   *)
(* run also failed; when a secondary ran, originalError is the primary      *)
(* run's error message and error, if any, is the secondary's own; the       *)
(* result of a successful primary carries none of the three fields.         *)
C11_RetryEnvelope ==
  orch = "returned" =>
    /\ Flag(returned, "wasRetry") <=> SecondaryRan
    /\ Flag(returned, "isRetryExhausted") <=>
         (SecondaryRan /\ ~runResult["run-retry"].success)
    /\ SecondaryRan =>
         /\ ~runResult["run"].success
         /\ returned.originalError = runResult["run"].error
         /\ returned.success = runResult["run-retry"].success
         /\ IF returned.success
            THEN "error" \notin DOMAIN returned
            ELSE returned.error = runResult["run-retry"].error
    /\ ~SecondaryRan =>
         /\ returned = runResult["run"]
         /\ returned.success
         /\ RetryFields \cap DOMAIN returned = {}

C11_Witness ==
  /\ orch = "returned"
  /\ Flag(returned, "isRetryExhausted")
  /\ returned.originalError # returned.error
  /\ returned.originalError = <<"launch failed">>

(* C12: for every trigger that produces a result, the alert and the        *)
(* failure notification are both sent iff the final result is a failure    *)
(* with retry exhausted; the success notification is sent iff the final    *)
(* result is a success, on the secondary run included; a trigger whose     *)
(* primary failed and whose secondary succeeded sends no alert and no      *)
(* failure notification.                                                   *)
C12_NotificationsMatchResult ==
  /\ [](\A h \in Handlers :
          /\ pc[h] = "sendSuccessEmail" =>
               /\ result[h].success
               /\ calls[h] = {"sendSuccessEmail"}
          /\ pc[h] = "sendFailureAlert" =>
               /\ ~result[h].success
               /\ Flag(result[h], "isRetryExhausted")
               /\ calls[h] = {"sendFailureAlert"}
          /\ pc[h] = "sendFailureEmail" =>
               /\ ~result[h].success
               /\ Flag(result[h], "isRetryExhausted")
               /\ calls[h] = {"sendFailureAlert", "sendFailureEmail"})
  /\ [][\A h \in Handlers :
          (pc[h] # "idle" /\ pc'[h] = "idle") =>
            \/ pc[h] \in {"primary", "secondary"} /\ lastLog' = "unexpected_error"
            \/ pc[h] = "sendSuccessEmail"
            \/ pc[h] = "sendFailureEmail"]_vars

C12_Witness ==
  \E h \in Handlers :
    /\ pc[h] = "sendSuccessEmail"
    /\ Flag(result[h], "wasRetry")
    /\ ~firstResult[h].success
    /\ calls[h] = {"sendSuccessEmail"}

(* C13: runSyncWithRetry never raises: whatever fails in the export, the   *)
(* authentication or the upload of the primary and of the secondary run,   *)
(* before the browser session exists included, no exception escapes it and *)
(* what it returns is a terminal result.                                   *)
C13_NeverRaises ==
  /\ orch # "raised"
  /\ thrown # NoError => step = "closeBrowser"
  /\ orch = "returned" =>
       /\ returned # NoResult
       /\ returned.success \in BOOLEAN
       /\ returned.endTime # null

C13_Witness ==
  /\ orch = "returned"
  /\ cause["run"] = PlainError("launch failed")
  /\ browser["run"] = "none"
  /\ cause["run-retry"].category = "upload"
  /\ ~returned.success

\* The export of run r is in progress: called and not yet returned or thrown.
ExportActive(r) ==
  /\ orch \in {"primary", "secondary"}
  /\ RunId = r
  /\ step = "launchBrowser" \/ ExportTry(step) \/ step = "closeBrowser"

(* C14: the secondary run starts only after the primary run has fully      *)
(* finished (its result produced, its browser session closed, the cleanup  *)
(* of its download directory performed) and after the retry delay has      *)
(* elapsed; the two runs never overlap.                                    *)
C14_SecondaryAfterPrimary ==
  [][(orch = "retryDelay" /\ orch' # "retryDelay") =>
       /\ runResult["run"] # NoResult
       /\ step = "none"
       /\ browser["run"] # "open"
       /\ dir["run"] # "none" => "run" \in cleaned
       /\ now' >= runResult["run"].endTime + RETRY_DELAY_MS]_vars

Categories == {"login", "navigation", "export", "upload", "auth"}

(* C15: every run with success = false carries exactly one error category  *)
(* of login, navigation, export, upload, auth, whatever step failed;       *)
(* every run with success = true carries none.                             *)
C15_FailureHasCategory ==
  \A r \in RunIds :
    runResult[r] # NoResult =>
      IF runResult[r].success
      THEN "errorCategory" \notin DOMAIN runResult[r]
      ELSE runResult[r].errorCategory \in Categories

(* C16: the phase reported by a failed run is determined by its category:  *)
(* login, navigation and export give phase export, auth and upload give    *)
(* phase upload; a failed run never reports phase complete.                *)
C16_PhaseFromCategory ==
  \A r \in RunIds :
    (runResult[r] # NoResult /\ ~runResult[r].success) =>
      /\ runResult[r].errorCategory \in {"login", "navigation", "export"} =>
           runResult[r].phase = "export"
      /\ runResult[r].errorCategory \in {"auth", "upload"} =>
           runResult[r].phase = "upload"
      /\ runResult[r].phase # "complete"

\* The phases of an export, download behaviour first, and those run r started.
Phases == <<"setupDownloadBehavior", "login", "navigateToVehicles",
            "triggerExport", "waitForDownload">>

IsPhase(s) == \E i \in 1..Len(Phases) : Phases[i] = s

PhasesStarted(r) == SelectSeq(started[r], IsPhase)

(* C17: within one export the phases run strictly in the order login,      *)
(* navigate, trigger, capture, after the download behaviour is configured: *)
(* none is skipped or repeated, a phase starts only after everything       *)
(* before it succeeded, and after a failure no later phase starts.         *)
C17_PhasesInOrder ==
  /\ [](\A r \in RunIds :
          /\ Len(PhasesStarted(r)) <= Len(Phases)
          /\ PhasesStarted(r) = SubSeq(Phases, 1, Len(PhasesStarted(r))))
  /\ [][\A r \in RunIds :
          /\ PhasesStarted(r)' # PhasesStarted(r) =>
               /\ thrown = NoError /\ thrown' = NoError
               /\ cause'[r] = NoError /\ ~shotFailed'[r]
          /\ (thrown # NoError \/ cause[r] # NoError \/ shotFailed[r]) =>
               PhasesStarted(r)' = PhasesStarted(r)]_vars

C17_Witness ==
  /\ orch = "returned"
  /\ PhasesStarted("run") = SubSeq(Phases, 1, 3)
  /\ runResult["run"].errorCategory = "navigation"
  /\ PhasesStarted("run-retry") = Phases
  /\ returned.success

C19_DirectoryCleaned ==
  \A r \in RunIds :
    (~ExportActive(r) /\ dir[r] # "none") => r \in cleaned

(* C20: a failing screenshot is never escalated: it does not turn a run    *)
(* in which nothing else failed into a failure, and it does not change     *)
(* the category or the message of the failure there is.                    *)
C20_ScreenshotNotEscalated ==
  \A r \in RunIds :
    runResult[r] # NoResult =>
      IF cause[r] = NoError
      THEN runResult[r].success
      ELSE /\ ~runResult[r].success
           /\ runResult[r].error = cause[r].message
           /\ runResult[r].errorCategory = cause[r].category

(* C25: for every trigger whose orchestrator returns a result the          *)
(* scheduler calls one of recordSuccess() / recordFailure(), once, chosen  *)
(* by the final result: on the step that delivers a failed result the      *)
(* counter rises by exactly one, on the step that delivers a successful    *)
(* one (on the secondary run included) it is reset by recordSuccess(); no  *)
(* other step of the trigger touches the breaker, a failed primary run     *)
(* that is retried included.                                               *)
C25_OneRecordPerTrigger ==
  [][\A h \in Handlers :
       /\ (AttemptConcludes(h) /\ pc'[h] \in Settled) =>
            IF result'[h].success
            THEN /\ op' = "recordSuccess"
                 /\ consecutiveFailures' = 0
                 /\ circuitOpenedAt' = null
            ELSE /\ op' = "recordFailure"
                 /\ consecutiveFailures' = consecutiveFailures + 1
       /\ (AttemptConcludes(h) /\ pc'[h] = "idle") =>
            /\ lastLog' = "unexpected_error"
            /\ UNCHANGED <<breaker, op, streak>>
       /\ (pc[h] # "idle" /\ ~AttemptConcludes(h)) =>
            UNCHANGED <<breaker, op, streak>>]_vars

C25_Witness ==
  \E h \in Handlers :
    /\ pc[h] = "sendSuccessEmail"
    /\ Flag(result[h], "wasRetry")
    /\ ~firstResult[h].success
    /\ op = "recordSuccess"
    /\ consecutiveFailures = 0
    /\ runs[h] = 2

(* C30: for every started attempt the jitter delay d is an integer with    *)
(* 0 <= d < SYNC_DELAY_MAX_MS; the orchestrator is invoked only with the   *)
(* in-flight guard set and once d has elapsed, without any wait when       *)
(* d = 0.                                                                  *)
C30_JitterWithinBound ==
  /\ [](/\ \A k \in 0..(RandomGrain - 1) :
             getRandomDelay(k) \in 0..(SYNC_DELAY_MAX_MS - 1)
        /\ \A h \in Handlers :
             /\ pc[h] = "jitter" =>
                  /\ isRunning
                  /\ runs[h] = 0
                  /\ wakeAt[h] # null
             /\ pc[h] = "primary" => isRunning)
  /\ [][\A h \in Handlers :
          /\ (Tick(h) /\ pc'[h] = "jitter") =>
               /\ isRunning'
               /\ wakeAt'[h] - now \in 1..(SYNC_DELAY_MAX_MS - 1)
          /\ (Tick(h) /\ pc'[h] = "primary") =>
               /\ isRunning'
               /\ now' = now
               /\ runs'[h] = 1
          /\ (pc[h] = "jitter" /\ pc'[h] # "jitter") =>
               /\ pc'[h] = "primary"
               /\ now' >= wakeAt[h]
               /\ runs'[h] = 1]_vars

C30_Witness ==
  \E h \in Handlers :
    /\ pc[h] = "primary"
    /\ lastLog = "starting"
    /\ isRunning
    /\ now >= SYNC_DELAY_MAX_MS - 1
    /\ now > 0

\* The forms in which the upload endpoint reports a duplicate filename.
ReportsDuplicate(resp) ==
  /\ resp.outcome \in {"resolved", "axiosError"}
  /\ "data" \in DOMAIN resp
  /\ ~Flag(resp.data, "success")
  /\ \/ Field(resp.data, "code") = "DUPLICATE_FILENAME"
     \/ Field(resp.data, "error") = "duplicate_filename"

(* C28: a duplicate-filename response is a success in every form in which  *)
(* it is reported (code DUPLICATE_FILENAME or error duplicate_filename, in *)
(* a resolved response or in an HTTP error response): the upload returns   *)
(* the skipped result and the run ends as a success without an error       *)
(* category.                                                               *)
C28_DuplicateIsSuccess ==
  [][\A resp \in Responses :
       (ReportsDuplicate(resp) /\ UploadToVtxUploadsReturns(resp)) =>
         /\ uploadToVtxUploads(resp) = UploadSkipped
         /\ runResult'[RunId].success
         /\ "errorCategory" \notin DOMAIN runResult'[RunId]]_vars

\* The runs whose browser session is open, and the upload in progress.
OpenSessions == {r \in RunIds : browser[r] = "open"}
UploadActive == step = "uploadToVtxUploads"

MinuteOf(t) == (t.day * 24 + t.hour) * 60 + t.minute

\* The calendar points of the day of t and of the day after.
CalendarPoints(t) ==
  {[day |-> d, hour |-> h, minute |-> m] :
     d \in {t.day, t.day + 1}, h \in 5..22, m \in {0, 30}}

\* The earliest calendar point strictly after t.
NextTrigger(t) ==
  CHOOSE p \in CalendarPoints(t) :
    /\ MinuteOf(p) > MinuteOf(t)
    /\ \A q \in CalendarPoints(t) :
         MinuteOf(q) > MinuteOf(t) => MinuteOf(p) <= MinuteOf(q)

(* C26: for every wall-clock time getNextRunTime returns the next fire     *)
(* time of the calendar (minutes 0 and 30 of hours 5 through 22, every     *)
(* day): the earliest calendar point strictly after the current time.      *)
C26_NextRunIsNextTrigger ==
  nextRunTime # Never => nextRunTime = NextTrigger(pacificTime)

(* C27: the cron task fires every 30 minutes from 5:00 to 22:00: 36 times  *)
(* a day, first at 5:00, last at 22:00, never outside that range.          *)
C27_TriggerCalendar ==
  /\ lastTrigger # Never =>
       /\ lastTrigger.minute \in {0, 30}
       /\ 5 * 60 <= lastTrigger.hour * 60 + lastTrigger.minute
       /\ lastTrigger.hour * 60 + lastTrigger.minute <= 22 * 60
  /\ (triggersToday = 1) => (lastTrigger.hour = 5 /\ lastTrigger.minute = 0)
  /\ (pacificTime.hour = 23 /\ pacificTime.minute = 59) =>
       /\ triggersToday = 36
       /\ lastTrigger = [day |-> pacificTime.day, hour |-> 22, minute |-> 0]

\* The capture has ended, one way or the other.
CaptureEnded == wpc \in {"accepted", "failed"}

\* The two failures of the capture the caller can tell apart.
TimeoutMessage == <<"Download failed: ", "timeout">>
ValidationMessage == <<"Downloaded file is not a valid XLSX (ZIP) format">>

(* C21: the capture accepts a file only when the two consecutive readings  *)
(* of its size are equal and non-zero and its leading bytes carry the      *)
(* container signature; when the second reading differs from the first the *)
(* file is not accepted at that poll and the loop waits for its next poll. *)
C21_AcceptsStableSignedFile ==
  /\ [](wpc = "accepted" =>
          /\ firstSize > 0
          /\ newSize = firstSize
          /\ artifact.filename = filePath
          /\ artifact.size = newSize
          /\ artifact.magic = "PK")
  /\ [][(wpc = "settle" /\ wpc' # "settle" /\ newSize' # firstSize) =>
          /\ wpc' = "sleep"
          /\ wake' = now' + pollInterval
          /\ artifact' = NoArtifact
          /\ dlError' = NoError]_vars

C21_Witness ==
  /\ wpc = "accepted"
  /\ pollAt > startTime
  /\ artifact.size = MaxFileSize

\* Names bearing a partial-download marker.
PartialNames ==
  {<<"report", ".xlsx", ".crdownload">>, <<"report", ".xlsx", ".tmp">>,
   <<"report", ".crdownload">>, <<"report", ".tmp">>,
   <<".", "report", ".xlsx", ".crdownload">>}

(* C22: a file bearing a partial-download marker is never a candidate; if  *)
(* from the start of the capture the directory never holds a file ending   *)
(* with the expected extension, the capture fails at the timeout, with     *)
(* category export and the timeout message, never the validation message.  *)
C22_PartialFilesTimeOut ==
  /\ \A f \in PartialNames : ~IsXlsxFile(f)
  /\ (onlyPartial /\ wpc # "idle") => (wpc \in {"sleep", "failed"})
  /\ (onlyPartial /\ CaptureEnded) =>
       /\ wpc = "failed"
       /\ waited = "timeout"
       /\ now - startTime >= DOWNLOAD_TIMEOUT_MS
       /\ dlError.category = "export"
       /\ dlError.message = TimeoutMessage
       /\ dlError.message # ValidationMessage
       /\ artifact = NoArtifact

C22_Witness ==
  /\ wpc = "failed"
  /\ onlyPartial
  /\ files[<<"report", ".xlsx", ".crdownload">>] # Absent

(* C23: when a stable file is read whose leading bytes do not carry the    *)
(* signature, the capture fails with category export and the validation    *)
(* message, which differs from the timeout message, and no artifact is     *)
(* returned.                                                               *)
C23_BadSignatureFails ==
  /\ TimeoutMessage # ValidationMessage
  /\ (buffer # Absent /\ buffer.magic # "PK") =>
       /\ wpc = "failed"
       /\ waited = "returned"
       /\ newSize = firstSize
       /\ dlError.category = "export"
       /\ dlError.message = ValidationMessage
       /\ artifact = NoArtifact
  /\ wpc = "failed" => artifact = NoArtifact
  /\ wpc = "accepted" => dlError = NoError

C23_Witness ==
  /\ wpc = "failed"
  /\ buffer # Absent
  /\ buffer.magic = "other"
  /\ buffer.size = MaxFileSize

(* C24: the capture always terminates: whatever the directory does,        *)
(* waitForFile eventually returns a file or throws the timeout error; a    *)
(* pass of its loop begins only while the timeout has not elapsed, and the *)
(* timeout error is thrown only once it has.                               *)
C24_CaptureTerminates ==
  /\ [](wpc \in {"settle", "sleep"} =>
          /\ waited = "pending"
          /\ pollAt - startTime < DOWNLOAD_TIMEOUT_MS)
  /\ [](waited = "timeout" =>
          /\ wpc = "failed"
          /\ now - startTime >= DOWNLOAD_TIMEOUT_MS)
  /\ (wpc # "idle") ~> (waited \in {"returned", "timeout"} /\ CaptureEnded)

C24_Witness ==
  /\ waited = "timeout"
  /\ firstSize # null
  /\ firstSize > 0
  /\ ~dirExists

(* C34: recordFailure() called while the breaker is already open raises    *)
(* the counter by one and leaves the open timestamp as it is: the reset    *)
(* window keeps running from the time the threshold was first reached.     *)
C34_OpenTimeKept ==
  [][(CallRecordFailure /\ circuitOpenedAt # null) =>
       /\ consecutiveFailures' = consecutiveFailures + 1
       /\ circuitOpenedAt' = circuitOpenedAt
       /\ LET after == CB(consecutiveFailures', circuitOpenedAt')
              T == circuitOpenedAt
          IN  /\ isCircuitOpen(after, T + resetTimeoutMs - 1).ret
              /\ ~isCircuitOpen(after, T + resetTimeoutMs).ret]_vars

C34_Witness ==
  /\ op = "recordFailure"
  /\ consecutiveFailures > CIRCUIT_BREAKER_THRESHOLD
  /\ circuitOpenedAt # null
  /\ now > circuitOpenedAt

(* C35: in every state the breaker can reach through recordFailure(),      *)
(* recordSuccess(), isCircuitOpen() and getStatus() calls and the passage  *)
(* of time, the open timestamp is set exactly when the counter is at or    *)
(* above the threshold.                                                    *)
C35_OpenIffAtThreshold ==
  (circuitOpenedAt # null) <=>
    (consecutiveFailures >= CIRCUIT_BREAKER_THRESHOLD)

C35_Witness ==
  /\ op = "getStatus"
  /\ cbLog = "auto_reset"
  /\ consecutiveFailures = 0
  /\ circuitOpenedAt = null
  /\ streak = 0

(* C36: driven by the scheduler alone the counter never exceeds the        *)
(* threshold: at the threshold every tick is turned away until a success   *)
(* or the auto-reset has put the counter back to 0.                        *)
C36_CounterAtMostThreshold ==
  /\ [](consecutiveFailures <= CIRCUIT_BREAKER_THRESHOLD)
  /\ [][\A h \in Handlers :
          (Tick(h) /\ pc'[h] # "idle") =>
            consecutiveFailures' < CIRCUIT_BREAKER_THRESHOLD]_vars

C36_Witness ==
  /\ consecutiveFailures = CIRCUIT_BREAKER_THRESHOLD
  /\ lastLog = "skip_circuit"
  /\ ~isRunning

(* C40: the breaker never disables the scheduler for good: a tick at least *)
(* the reset window after the open time, with no attempt in flight, finds  *)
(* the breaker closed without any success having been recorded and starts  *)
(* an attempt, which begins with the counter at 0.                         *)
C40_TickAfterWindowStarts ==
  [][\A h \in Handlers :
       (/\ Tick(h)
        /\ ~isRunning
        /\ circuitOpenedAt # null
        /\ now - circuitOpenedAt >= resetTimeoutMs) =>
         /\ isRunning'
         /\ pc'[h] \in {"jitter", "primary"}
         /\ consecutiveFailures' = 0
         /\ circuitOpenedAt' = null]_vars

C40_Witness ==
  /\ lastLog = "triggered"
  /\ op = "isCircuitOpen"
  /\ cbLog = "auto_reset"
  /\ isRunning
  /\ consecutiveFailures = 0
  /\ streak = 0

(* C37: every failed result the retry orchestrator returns carries         *)
(* wasRetry and isRetryExhausted; so every trigger that ends in failure    *)
(* calls the alert and then the failure notification, and no failed        *)
(* trigger ends without the alert.                                         *)
C37_FailureIsExhausted ==
  /\ [](\A h \in Handlers :
          (pc[h] \in Settled /\ ~result[h].success) =>
            /\ Flag(result[h], "wasRetry")
            /\ Flag(result[h], "isRetryExhausted")
            /\ runs[h] = 2
            /\ "sendFailureAlert" \in calls[h])
  /\ [][\A h \in Handlers :
          /\ (AttemptConcludes(h) /\ op' = "recordFailure") =>
               pc'[h] = "sendFailureAlert"
          /\ (pc[h] # "idle" /\ pc'[h] = "idle"
                /\ lastRunStatus' = "failure" /\ lastLog' # "unexpected_error") =>
               /\ pc[h] = "sendFailureEmail"
               /\ calls[h] = {"sendFailureAlert", "sendFailureEmail"}]_vars

C37_Witness ==
  \E h \in Handlers :
    /\ pc[h] = "sendFailureEmail"
    /\ Flag(result[h], "wasRetry")
    /\ Flag(result[h], "isRetryExhausted")
    /\ calls[h] = {"sendFailureAlert", "sendFailureEmail"}
    /\ consecutiveFailures = 2

(* C38: when an unexpected exception escapes the orchestrator the callback *)
(* calls neither recordSuccess() nor recordFailure(), sends no             *)
(* notification and leaves the last-run status; it only clears the         *)
(* in-flight guard (and logs), and the callback returns normally.          *)
C38_ExceptionOnlyClearsGuard ==
  [][\A h \in Handlers :
       (pc[h] \in {"primary", "secondary"} /\ pc'[h] = "idle") =>
         /\ isRunning /\ ~isRunning'
         /\ lastLog' = "unexpected_error"
         /\ calls[h] = {}
         /\ UNCHANGED <<now, breaker, api, health>>
         /\ \A g \in Handlers \ {h} : pc'[g] = pc[g]]_vars

C38_Witness ==
  /\ ~isRunning
  /\ lastLog = "unexpected_error"
  /\ consecutiveFailures = 1
  /\ op = "isCircuitOpen"
  /\ lastRunStatus = "failure"
  /\ \A h \in Handlers : pc[h] = "idle"

(* C39: a failing notification collaborator does not change the outcome of *)
(* the trigger: the breaker was updated from the run result before the     *)
(* first notification and is not touched again, the notifications that     *)
(* remain are still attempted, the last-run status is updated from the run *)
(* result and the guard is cleared.                                        *)
C39_NotificationFailureHarmless ==
  /\ [](\A h \in Handlers :
          pc[h] \in Settled =>
            /\ isRunning
            /\ op = IF result[h].success THEN "recordSuccess"
                    ELSE "recordFailure"
            /\ result[h].success => consecutiveFailures = 0
            /\ ~result[h].success => consecutiveFailures >= 1)
  /\ [][\A h \in Handlers :
          (pc[h] \in Settled /\ pc'[h] # pc[h]) =>
            /\ UNCHANGED <<now, breaker, api>>
            /\ pc[h] = "sendFailureAlert" =>
                 /\ pc'[h] = "sendFailureEmail"
                 /\ isRunning'
                 /\ result'[h] = result[h]
            /\ pc[h] \in {"sendSuccessEmail", "sendFailureEmail"} =>
                 /\ pc'[h] = "idle"
                 /\ ~isRunning'
                 /\ lastRunTime' = result[h].endTime
                 /\ lastRunStatus' =
                      IF result[h].success THEN "success" ELSE "failure"
                 /\ hcLastRunStatus' = lastRunStatus']_vars

C39_Witness ==
  /\ lastLog = "success_email_failed"
  /\ lastRunStatus = "success"
  /\ hcLastRunStatus = "success"
  /\ op = "recordSuccess"
  /\ ~isRunning

\* C33: the secondary run id is the primary id followed by the fixed suffix
\* "-retry": one primary id never yields two secondary ids, the secondary id
\* differs from the primary id and from every id generateRunId can return, and
\* the download directory of the secondary run differs from the primary's.
C33_RetryIdDerived ==
  /\ \A id \in GeneratedIds : Cardinality(derived[id]) <= 1
  /\ retryId # NoId =>
       /\ retryId = primaryId \o <<"-retry">>
       /\ retryId # primaryId
       /\ retryId \notin GeneratedIds
       /\ paths.secondary = <<"tmpdir", "/", "vtx-sync-">> \o retryId
       /\ paths.secondary # paths.primary

\* The same primary id has been retried, after another one was.
C33_Witness ==
  /\ primaryId = <<"a", "7">>
  /\ retryId = <<"a", "7", "-retry">>
  /\ derived[<<"a", "7">>] # {}
  /\ derived[<<"7">>] # {}
  /\ paths.secondary # paths.primary

\* The page.evaluate() that clicks has run in this call of triggerExport.
Evaluated ==
  \/ tpc \in {"clicked", "returned"}
  \/ tpc = "failed" /\ clicked.clicked
  \/ tpc = "failed"
       /\ triggerError.message = <<"Could not find Export option in dropdown">>

\* Positions in document order of the buttons, of the dropdown links and of
\* the dropdown containers bearing the export text.
ExportButtons ==
  {i \in 1..Len(Nodes(dom)) :
     /\ Nodes(dom)[i].tag = "BUTTON"
     /\ ExportOrPrefix(Nodes(dom)[i].text)}

ExportLinks ==
  {i \in 1..Len(Nodes(dom)) :
     /\ Nodes(dom)[i].tag = "A"
     /\ Nodes(dom)[i].where # "page"
     /\ ExportOrPrefix(Nodes(dom)[i].text)}

ExportContainers ==
  {i \in 1..Len(Nodes(dom)) :
     /\ Nodes(dom)[i].tag \in {"LI", "DIV"}
     /\ ExportExactly(Nodes(dom)[i].text)}

\* C31: once the clicking evaluation has run, if some button's trimmed
\* lower-case text is or starts with "export", the element clicked is the
\* first such button, whatever links or containers bear the same text; a
\* dropdown link is clicked only when no button matches, and the container
\* stage acts only when neither a button nor a dropdown link matches.
C31_ButtonThenLinkThenContainer ==
  Evaluated =>
    /\ ExportButtons # {} =>
         /\ clicked.clicked
         /\ clicked.element = "BUTTON"
         /\ clicked.target = "BUTTON"
         /\ clicked.at \in ExportButtons
         /\ \A i \in ExportButtons : clicked.at <= i
    /\ clicked.element = "A" =>
         /\ ExportButtons = {}
         /\ clicked.at \in ExportLinks
         /\ \A i \in ExportLinks : clicked.at <= i
    /\ clicked.element \in {"Nested", "LI"} =>
         /\ ExportButtons = {}
         /\ ExportLinks = {}
    /\ ~clicked.clicked =>
         ExportButtons \cup ExportLinks \cup ExportContainers = {}

\* Scenario E: a container bearing the export text precedes the button in
\* the document, and the button was clicked.
C31_Witness ==
  /\ tpc = "returned"
  /\ Len(dom) = 2
  /\ dom[1].tag = "LI" /\ ExportExactly(dom[1].text)
  /\ dom[1].child.tag = "none"
  /\ dom[2].tag = "BUTTON"
  /\ clicked.element = "BUTTON" /\ clicked.at = 2

\* C32: triggerExport returns true only if click() was called on a button or
\* on a link, and every failure of it carries the category export.
C32_NoContainerSuccess ==
  /\ triggered => clicked.clicked /\ clicked.target \in {"BUTTON", "A"}
  /\ tpc = "failed" => triggerError.category = "export"

====
